---- MODULE Spec2Model ----
(***************************************************************************)
(* Shape entity of the PlanarAlly client: obstruction bookkeeping          *)
(* (blocker sets, vision sources), ownership / access rules and the        *)
(* outbound socket events, as implemented in                               *)
(* src/client/src/game/shapes/shape.ts.                                    *)
(***************************************************************************)
EXTENDS Integers, Sequences, FiniteSets, TLC

\* ------------------------------------------------------------------ bounds
\* Largest number of ids in a groupInfo list.
MaxGroup == 2
\* Largest rotation angle a shape is turned to, in steps.
MaxAngle == 2
\* Largest number of auras one shape carries.
MaxAuras == 1
\* Largest number of owner records in a wire payload.
MaxWireOwners == 1

\* ---------------------------------------------------------------- universes
Shapes == {"s1", "s2"}
Floors == {"f1", "f2"}
AuraIds == {"a1", "a2"}
Users == {"alice", "bob"}
\* The user name that "set username" recognises as the room's game master.
DmUser == "gm"
\* The shapes that setLayer moves to another floor.
Movers == {"s1"}
\* The shapes whose owners and options are edited.
Subjects == {"s1"}
\* The layer names the layer manager knows, on each of its floors.
Layers == {"tokens"}
\* A floor name and a layer name the layer manager does not know.
UnknownFloor == "attic"
UnknownLayer == "ghost"
FloorNames == Floors \cup {UnknownFloor}
LayerNames == Layers \cup {UnknownLayer}
\* The value of a lookup that finds nothing.
Undefined == "undefined"
\* The error a call ends with.
NoError == "none"
TypeError == "TypeError"
SyntaxError == "SyntaxError"

\* ShapeAccess: { edit, vision, movement }.  A Partial<ShapeAccess> field that
\* is absent reads as falsy everywhere the code reads it, and addOwner spreads
\* it over { edit: false, vision: false, movement: false }, so absent = FALSE.
Access == [edit : BOOLEAN, vision : BOOLEAN, movement : BOOLEAN]
NoAccess == [edit |-> FALSE, vision |-> FALSE, movement |-> FALSE]
FullAccess == [edit |-> TRUE, vision |-> TRUE, movement |-> TRUE]

VARIABLES
    floor,               \* Shape._floor
    visionObstruction,   \* Shape.visionObstruction
    movementObstruction, \* Shape.movementObstruction
    auras,               \* Shape.auras: sequence of [uuid, visionSource]
    owners,              \* Shape._owners: sequence of [shape, user, access]
    defaultAccess,       \* Shape.defaultAccess
    isToken,             \* Shape.isToken
    isInvisible,         \* Shape.isInvisible
    isLocked,            \* Shape.isLocked
    visionBlockers,      \* visibilityStore.visionBlockers, per floor
    movementBlockers,    \* visibilityStore.movementBlockers, per floor
    visionSources,       \* visibilityStore.visionSources, per floor
    ownedtokens,         \* gameStore.ownedtokens
    username,            \* gameStore.username
    IS_DM,               \* gameStore.IS_DM
    FAKE_PLAYER,         \* gameStore.FAKE_PLAYER
    activeTokens,        \* gameStore.activeTokens
    fowLos,              \* gameSettingsStore.fowLos
    call,                \* the last call: operation, receiver, arguments
    ret,                 \* what the last call returned (FALSE for void)
    emitted,             \* socket.emit calls made by the last call
    triag,               \* visibilityStore requests made by the last call
    lightInvalidations,  \* layerManager.invalidateLightAllFloors calls of the last call
    layerCalls,          \* calls on the shape's layer made by the last call
    layer,               \* Shape._layer
    angle,               \* Shape._angle
    strokeWidth,         \* Shape.strokeWidth
    name,                \* Shape.name
    annotation,          \* Shape.annotation
    options,             \* Shape.options: the Map's entries in insertion order
    UUIDMap,             \* layerManager.UUIDMap: the ids it maps to a shape
    thrown,              \* the error the last call threw, or NoError
    logged,              \* console.log lines of the last call
    members,             \* what the last getGroupMembers call returned
    batch                \* the entries the last "clear temporaries" event carried

shapeVars == <<floor, visionObstruction, movementObstruction, auras, owners,
               defaultAccess, isToken, isInvisible, isLocked>>
storeVars == <<visionBlockers, movementBlockers, visionSources, ownedtokens>>
sessionVars == <<username, IS_DM, FAKE_PLAYER, activeTokens, fowLos>>
logVars == <<call, ret, emitted, triag, lightInvalidations, layerCalls,
             thrown, logged, members, batch>>
detailVars == <<layer, angle, strokeWidth, name, annotation, options>>
registryVars == <<UUIDMap>>
vars == <<shapeVars, storeVars, sessionVars, logVars, detailVars, registryVars>>

\* ------------------------------------------------------------ array helpers
\* Array.prototype.indexOf: 0-based index of the first occurrence, or -1.
IndexOf(seq, x) ==
    IF \E i \in 1..Len(seq) : seq[i] = x
    THEN (CHOOSE i \in 1..Len(seq) :
            seq[i] = x /\ \A j \in 1..(i - 1) : seq[j] # x) - 1
    ELSE -1

\* Array.prototype.splice(i, 1) with a 0-based index i.
Splice(seq, i) ==
    [k \in 1..(Len(seq) - 1) |-> IF k <= i THEN seq[k] ELSE seq[k + 1]]

\* Number of occurrences of x in seq.
Count(seq, x) == Cardinality({i \in 1..Len(seq) : seq[i] = x})

\* Sequences over S of length at most n.
SeqsUpTo(S, n) == UNION {[1..k -> S] : k \in 0..n}

\* The record of the last call.
Call(op, s, flag, user, access, applied) ==
    [op |-> op, shape |-> s, flag |-> flag, user |-> user,
     access |-> access, applied |-> applied]

\* ------------------------------------------------ visibility store helpers
\* getBlockers(target, floor): the floor's blocker list of the target.
getBlockers(target, f) ==
    IF target = "vision" THEN visionBlockers[f] ELSE movementBlockers[f]

\* addBlocker(target, blocker, floor): push the id on the floor's list.
addBlocker(blockers, uuid) == Append(blockers, uuid)

\* sliceBlockers(target, index, floor): splice(index, 1) on the floor's list.
sliceBlockers(blockers, index) == Splice(blockers, index)

\* One request to the visibility store.
Req(op, target, arg) == [op |-> op, target |-> target, arg |-> arg]

\* ------------------------------------------- blocker-set reconciliation
\* BlockerBranch without the branch that removes the id.
BlockerBranch_NeverRemoves(blockers, uuid, flag) ==
    IF flag /\ IndexOf(blockers, uuid) = -1 THEN "add" ELSE "none"

\* BlockerBranch without the obstructionIndex === -1 test of the add branch.
BlockerBranch_IgnoresIndex(blockers, uuid, flag) ==
    IF flag THEN "add"
    ELSE IF IndexOf(blockers, uuid) >= 0 THEN "remove"
    ELSE "none"

\* The branch taken by checkVisionSources / setMovementBlock: the flag is on
\* and the id is absent ("add"), the flag is off and the id is present
\* ("remove"), or neither ("none").
BlockerBranch(blockers, uuid, flag) ==
    LET obstructionIndex == IndexOf(blockers, uuid) IN
    IF flag /\ obstructionIndex = -1 THEN "add"
    ELSE IF ~flag /\ obstructionIndex >= 0 THEN "remove"
    ELSE "none"

\* BlockersAfter splicing the head of the list instead of obstructionIndex.
BlockersAfter_SplicesFirst(blockers, uuid, flag) ==
    LET branch == BlockerBranch(blockers, uuid, flag) IN
    IF branch = "add" THEN addBlocker(blockers, uuid)
    ELSE IF branch = "remove" THEN sliceBlockers(blockers, 0)
    ELSE blockers

\* The floor's blocker list after the reconciliation.
BlockersAfter(blockers, uuid, flag) ==
    LET branch == BlockerBranch(blockers, uuid, flag) IN
    IF branch = "add" THEN addBlocker(blockers, uuid)
    ELSE IF branch = "remove" THEN sliceBlockers(blockers, IndexOf(blockers, uuid))
    ELSE blockers

\* BlockerRequests with the recomputation requested before the change of
\* the triangulation.
BlockerRequests_RecalculatesFirst(target, blockers, uuid, flag, f, recalculate) ==
    LET branch == BlockerBranch(blockers, uuid, flag) IN
    (IF branch # "none" /\ recalculate
     THEN <<Req(IF target = "vision" THEN "recalculateVision"
                ELSE "recalculateMovement", target, f)>>
     ELSE <<>>)
    \o (IF branch = "add" /\ recalculate THEN <<Req("addToTriag", target, uuid)>>
        ELSE IF branch = "remove" /\ recalculate
             THEN <<Req("deleteFromTriag", target, uuid)>>
             ELSE <<>>)

\* BlockerRequests without the if (recalculate) tests.
BlockerRequests_IgnoresRecalculate(target, blockers, uuid, flag, f, recalculate) ==
    LET branch == BlockerBranch(blockers, uuid, flag) IN
    (IF branch = "add" THEN <<Req("addToTriag", target, uuid)>>
     ELSE IF branch = "remove" THEN <<Req("deleteFromTriag", target, uuid)>>
     ELSE <<>>)
    \o (IF branch # "none"
        THEN <<Req(IF target = "vision" THEN "recalculateVision"
                   ELSE "recalculateMovement", target, f)>>
        ELSE <<>>)

\* The visibility store requests of the reconciliation, in call order.
BlockerRequests(target, blockers, uuid, flag, f, recalculate) ==
    LET branch == BlockerBranch(blockers, uuid, flag) IN
    (IF branch = "add" /\ recalculate THEN <<Req("addToTriag", target, uuid)>>
     ELSE IF branch = "remove" /\ recalculate
          THEN <<Req("deleteFromTriag", target, uuid)>>
          ELSE <<>>)
    \o (IF branch # "none" /\ recalculate
        THEN <<Req(IF target = "vision" THEN "recalculateVision"
                   ELSE "recalculateMovement", target, f)>>
        ELSE <<>>)

\* ------------------------------------------- vision-source reconciliation
\* visionSources.findIndex(o => o.aura === aura): 0-based, or -1.
FindAura(vs, aura) ==
    IF \E i \in 1..Len(vs) : vs[i].aura = aura
    THEN (CHOOSE i \in 1..Len(vs) :
            vs[i].aura = aura /\ \A j \in 1..(i - 1) : vs[j].aura # aura) - 1
    ELSE -1

\* AuraStep without the i === -1 test before the push.
AuraStep_AlwaysPush(vs, uuid, au) ==
    LET i == FindAura(vs, au.uuid) IN
    IF au.visionSource
    THEN Append(vs, [shape |-> uuid, aura |-> au.uuid])
    ELSE IF i >= 0 THEN Splice(vs, i)
    ELSE vs

\* Body of the first loop for one aura.
AuraStep(vs, uuid, au) ==
    LET i == FindAura(vs, au.uuid) IN
    IF au.visionSource /\ i = -1
    THEN Append(vs, [shape |-> uuid, aura |-> au.uuid])
    ELSE IF ~au.visionSource /\ i >= 0 THEN Splice(vs, i)
    ELSE vs

\* First loop: for (const au of this.auras), from the k-th aura on.
RECURSIVE AuraLoop(_, _, _, _)
AuraLoop(vs, uuid, as, k) ==
    IF k > Len(as) THEN vs
    ELSE AuraLoop(AuraStep(vs, uuid, as[k]), uuid, as, k + 1)

\* PruneStep with the test ls.shape === this.uuid inverted.
PruneStep_OtherShapes(vs, uuid, as, i) ==
    LET ls == vs[i + 1] IN
    IF ls.shape # uuid
       /\ ~(\E k \in 1..Len(as) : as[k].uuid = ls.aura /\ as[k].visionSource)
    THEN Splice(vs, i)
    ELSE vs

\* Body of the second loop at 0-based index i.
PruneStep(vs, uuid, as, i) ==
    LET ls == vs[i + 1] IN
    IF ls.shape = uuid
       /\ ~(\E k \in 1..Len(as) : as[k].uuid = ls.aura /\ as[k].visionSource)
    THEN Splice(vs, i)
    ELSE vs

\* Second loop: for (let i = visionSources.length - 1; i >= 0; i--).
RECURSIVE PruneLoop(_, _, _, _)
PruneLoop(vs, uuid, as, i) ==
    IF i < 0 THEN vs
    ELSE PruneLoop(PruneStep(vs, uuid, as, i), uuid, as, i - 1)

\* The floor's vision-source registry after checkVisionSources.
SourcesAfter(vs, uuid, as) ==
    LET first == AuraLoop(vs, uuid, as, 1) IN
    PruneLoop(first, uuid, as, Len(first) - 1)

\* ---------------------------------------------------------------- inputs
\* Aura lists a shape can carry: aura uuids are distinct within one shape.
AuraLists ==
    {q \in SeqsUpTo([uuid : AuraIds, visionSource : BOOLEAN], MaxAuras) :
        \A i, j \in 1..Len(q) : i # j => q[i].uuid # q[j].uuid}

\* An aura's uuid is generated for that aura: the uuids the auras of shape s
\* can carry, disjoint from those of every other shape.
OwnAuraIds(s) == IF s = "s1" THEN {"a1", "a2"} ELSE {"b1"}

\* Aura lists of shape s over its own aura uuids.
OwnAuraLists(s) ==
    {q \in SeqsUpTo([uuid : OwnAuraIds(s), visionSource : BOOLEAN], MaxAuras) :
        \A i, j \in 1..Len(q) : i # j => q[i].uuid # q[j].uuid}

\* ------------------------------------------------------- field defaults
\* strokeWidth = 5.
DefaultStrokeWidth == 5
\* name = "Unknown shape".
DefaultName == "Unknown shape"
\* options = new Map(): a Map is the function from its keys to their values.
EmptyMap == <<>>

\* ------------------------------------------------------------------- Init
Init ==
    /\ floor = [s \in Shapes |-> "f1"]
    /\ visionObstruction = [s \in Shapes |-> FALSE]
    /\ movementObstruction = [s \in Shapes |-> FALSE]
    /\ auras = [s \in Shapes |-> <<>>]
    /\ owners = [s \in Shapes |-> <<>>]
    /\ defaultAccess = [s \in Shapes |-> NoAccess]
    /\ isToken = [s \in Shapes |-> FALSE]
    /\ isInvisible = [s \in Shapes |-> FALSE]
    /\ isLocked = [s \in Shapes |-> FALSE]
    /\ visionBlockers = [f \in Floors |-> <<>>]
    /\ movementBlockers = [f \in Floors |-> <<>>]
    /\ visionSources = [f \in Floors |-> <<>>]
    /\ ownedtokens = <<>>
    /\ username = "alice"
    /\ IS_DM = FALSE
    /\ FAKE_PLAYER = FALSE
    /\ activeTokens = {}
    /\ fowLos = FALSE
    /\ call = Call("new", "s1", FALSE, "", NoAccess, FALSE)
    /\ ret = FALSE
    /\ emitted = <<>>
    /\ triag = <<>>
    /\ lightInvalidations = 0
    /\ layerCalls = <<>>
    /\ layer = [s \in Shapes |-> "tokens"]
    /\ angle = [s \in Shapes |-> 0]
    /\ strokeWidth = [s \in Shapes |-> DefaultStrokeWidth]
    /\ name = [s \in Shapes |-> DefaultName]
    /\ annotation = [s \in Shapes |-> ""]
    /\ options = [s \in Shapes |-> EmptyMap]
    /\ UUIDMap = Shapes
    /\ thrown = NoError
    /\ logged = <<>>
    /\ members = <<>>
    /\ batch = <<>>

\* ------------------------------------------------------ obstruction actions
\* shape.visionObstruction = v (the flag is a public field).
SetVisionObstruction(s, v) ==
    /\ visionObstruction' = [visionObstruction EXCEPT ![s] = v]
    /\ call' = Call("visionObstruction=", s, v, "", NoAccess, TRUE)
    /\ ret' = FALSE
    /\ emitted' = <<>>
    /\ triag' = <<>>
    /\ lightInvalidations' = 0
    /\ layerCalls' = <<>>
    /\ thrown' = NoError
    /\ logged' = <<>>
    /\ members' = <<>>
    /\ batch' = <<>>
    /\ UNCHANGED <<floor, movementObstruction, auras, owners, defaultAccess,
                   isToken, isInvisible, isLocked, storeVars, sessionVars,
                   detailVars, registryVars>>

\* shape.auras = as (the list is a public field).
SetAuras(s, as) ==
    /\ auras' = [auras EXCEPT ![s] = as]
    /\ call' = Call("auras=", s, FALSE, "", NoAccess, TRUE)
    /\ ret' = FALSE
    /\ emitted' = <<>>
    /\ triag' = <<>>
    /\ lightInvalidations' = 0
    /\ layerCalls' = <<>>
    /\ thrown' = NoError
    /\ logged' = <<>>
    /\ members' = <<>>
    /\ batch' = <<>>
    /\ UNCHANGED <<floor, visionObstruction, movementObstruction, owners,
                   defaultAccess, isToken, isInvisible, isLocked, storeVars,
                   sessionVars, detailVars, registryVars>>

\* layerManager.getFloor(name): the floor of that name, or undefined.
getFloor(f) == IF f \in Floors THEN f ELSE Undefined

\* layerManager.getLayer(floor, name): the layer of that name on the floor,
\* or undefined; no layer is found on a floor that is undefined.
getLayer(f, l) == IF f # Undefined /\ l \in Layers THEN l ELSE Undefined

\* The getter Shape.layer, over the getter Shape.floor: does it find a layer.
HasLayer(f, l) == getLayer(getFloor(f), l) # Undefined

\* this.layer.<method>(...) on a shape placed at floor f, layer l: the call
\* is made on the layer, or the receiver is undefined and a TypeError is thrown.
LayerCall(f, l, method) == IF HasLayer(f, l) THEN <<method>> ELSE <<>>
LayerError(f, l) == IF HasLayer(f, l) THEN NoError ELSE TypeError

\* Shape.setLayer(floor, layer).
SetLayer(s, f, l) ==
    /\ floor' = [floor EXCEPT ![s] = f]
    /\ layer' = [layer EXCEPT ![s] = l]
    /\ call' = Call("setLayer", s, FALSE, "", NoAccess, TRUE)
    /\ ret' = FALSE
    /\ emitted' = <<>>
    /\ triag' = <<>>
    /\ lightInvalidations' = 0
    /\ layerCalls' = <<>>
    /\ thrown' = NoError
    /\ logged' = <<>>
    /\ members' = <<>>
    /\ batch' = <<>>
    /\ UNCHANGED <<visionObstruction, movementObstruction, auras, owners,
                   defaultAccess, isToken, isInvisible, isLocked, storeVars,
                   sessionVars, angle, strokeWidth, name, annotation, options,
                   registryVars>>

\* set angle(angle): this._angle = angle; this.updatePoints().
SetAngle(s, a) ==
    /\ angle' = [angle EXCEPT ![s] = a]
    /\ layerCalls' = LayerCall(floor[s], layer[s], "updateShapePoints")
    /\ thrown' = LayerError(floor[s], layer[s])
    /\ call' = Call("angle=", s, FALSE, "", NoAccess, TRUE)
    /\ ret' = FALSE
    /\ emitted' = <<>>
    /\ triag' = <<>>
    /\ lightInvalidations' = 0
    /\ logged' = <<>>
    /\ members' = <<>>
    /\ batch' = <<>>
    /\ UNCHANGED <<shapeVars, storeVars, sessionVars, layer, strokeWidth, name,
                   annotation, options, registryVars>>

\* Shape.rotateAround(point, angle): the centre is moved by the subclass
\* (center is abstract), then this.angle += angle, which calls updatePoints,
\* then updatePoints once more.
RotateAround(s, delta) ==
    /\ angle' = [angle EXCEPT ![s] = @ + delta]
    /\ layerCalls' = LayerCall(floor[s], layer[s], "updateShapePoints")
                     \o LayerCall(floor[s], layer[s], "updateShapePoints")
    /\ thrown' = LayerError(floor[s], layer[s])
    /\ call' = Call("rotateAround", s, FALSE, "", NoAccess, TRUE)
    /\ ret' = FALSE
    /\ emitted' = <<>>
    /\ triag' = <<>>
    /\ lightInvalidations' = 0
    /\ logged' = <<>>
    /\ members' = <<>>
    /\ batch' = <<>>
    /\ UNCHANGED <<shapeVars, storeVars, sessionVars, layer, strokeWidth, name,
                   annotation, options, registryVars>>

\* The body of checkVisionSources(recalculate) on shape s, reading the flag
\* value flag: the blocker set, the store requests, the vision sources and
\* the returned alteredVision.
VisionRecheck(s, flag, recalculate) ==
    LET f == floor[s]
        visionBlockersOfFloor == getBlockers("vision", f)
    IN
    /\ visionBlockers' = [visionBlockers EXCEPT
            ![f] = BlockersAfter(visionBlockersOfFloor, s, flag)]
    /\ triag' = BlockerRequests("vision", visionBlockersOfFloor, s, flag, f,
                                recalculate)
    /\ visionSources' = [visionSources EXCEPT
            ![f] = SourcesAfter(visionSources[f], s, auras[s])]
    /\ ret' = (BlockerBranch(visionBlockersOfFloor, s, flag) # "none")
    /\ emitted' = <<>>
    /\ lightInvalidations' = 0
    /\ layerCalls' = <<>>
    /\ thrown' = NoError
    /\ logged' = <<>>
    /\ members' = <<>>
    /\ batch' = <<>>
    /\ UNCHANGED <<floor, movementObstruction, auras, owners, defaultAccess,
                   isToken, isInvisible, isLocked, movementBlockers,
                   ownedtokens, sessionVars, detailVars, registryVars>>

\* Shape.checkVisionSources(recalculate).
CheckVisionSources(s, recalculate) ==
    /\ VisionRecheck(s, visionObstruction[s], recalculate)
    /\ call' = Call("checkVisionSources", s, recalculate, "", NoAccess, TRUE)
    /\ UNCHANGED visionObstruction

\* shape.visionObstruction = v; shape.checkVisionSources(recalculate): the
\* toggle of the vision flag as its callers make it.
ToggleVision(s, v, recalculate) ==
    /\ visionObstruction' = [visionObstruction EXCEPT ![s] = v]
    /\ VisionRecheck(s, v, recalculate)
    /\ call' = Call("toggleVision", s, recalculate, "", NoAccess, TRUE)

\* Shape.setMovementBlock(blocksMovement, recalculate).
SetMovementBlock(s, blocksMovement, recalculate) ==
    LET f == floor[s]
        movementBlockersOfFloor == getBlockers("movement", f)
    IN
    /\ movementObstruction' = [movementObstruction EXCEPT ![s] = blocksMovement]
    /\ movementBlockers' = [movementBlockers EXCEPT
            ![f] = BlockersAfter(movementBlockersOfFloor, s, blocksMovement)]
    /\ triag' = BlockerRequests("movement", movementBlockersOfFloor, s,
                                blocksMovement, f, recalculate)
    /\ ret' = (BlockerBranch(movementBlockersOfFloor, s, blocksMovement) # "none")
    /\ call' = Call("setMovementBlock", s, recalculate, "", NoAccess, TRUE)
    /\ emitted' = <<>>
    /\ lightInvalidations' = 0
    /\ layerCalls' = <<>>
    /\ thrown' = NoError
    /\ logged' = <<>>
    /\ members' = <<>>
    /\ batch' = <<>>
    /\ UNCHANGED <<floor, visionObstruction, auras, owners, defaultAccess,
                   isToken, isInvisible, isLocked, visionBlockers,
                   visionSources, ownedtokens, sessionVars,
                   detailVars, registryVars>>

\* ------------------------------------------------------- wire conversions
\* ownerToServer(owner): the flat wire record of an owner entry.
ownerToServer(o) ==
    [shape |-> o.shape, user |-> o.user, edit_access |-> o.access.edit,
     movement_access |-> o.access.movement, vision_access |-> o.access.vision]

\* ownerToClient(owner): the owner entry of a flat wire record.
ownerToClient(w) ==
    [shape |-> w.shape, user |-> w.user,
     access |-> [edit |-> w.edit_access, vision |-> w.vision_access,
                 movement |-> w.movement_access]]

\* accessToServer(access): the flat wire record of an access triple.
accessToServer(a) ==
    [edit_access |-> a.edit, movement_access |-> a.movement,
     vision_access |-> a.vision]

\* One socket.emit call: the event name and its payload.
Event(kind, payload) == [kind |-> kind, payload |-> payload]

\* ------------------------------------------------------- ownership rules
\* The options of ownedBy: a Partial of three flags, an absent flag is falsy.
Capabilities == [editAccess : BOOLEAN, visionAccess : BOOLEAN,
                 movementAccess : BOOLEAN]
VisionOnly == [editAccess |-> FALSE, visionAccess |-> TRUE,
               movementAccess |-> FALSE]

\* Shape.ownedBy(options) on a shape with default access def and owner list
\* os, for the session's user, DM flag and impersonation state.
OwnedByWith(uuid, def, os, required) ==
    \/ IS_DM
    \/ (FAKE_PLAYER /\ uuid \in activeTokens)
    \/ (required.editAccess /\ def.edit)
    \/ (required.movementAccess /\ def.movement)
    \/ (required.visionAccess /\ def.vision)
    \/ \E i \in 1..Len(os) :
         /\ os[i].user = username
         /\ (IF required.editAccess THEN os[i].access.edit = TRUE ELSE TRUE)
         /\ (IF required.movementAccess THEN os[i].access.movement = TRUE ELSE TRUE)
         /\ (IF required.visionAccess THEN os[i].access.vision = TRUE ELSE TRUE)

\* Shape.ownedBy(options).
ownedBy(s, required) == OwnedByWith(s, defaultAccess[s], owners[s], required)

\* hasOwner looking at the first entry only.
hasOwner_FirstEntryOnly(os, user) == Len(os) > 0 /\ os[1].user = user

\* Shape.hasOwner(username) on owner list os.
hasOwner(os, user) == \E i \in 1..Len(os) : os[i].user = user

\* this._owners.findIndex(o => o.user === user): 0-based, or -1.
FindOwner(os, user) ==
    IF hasOwner(os, user)
    THEN (CHOOSE i \in 1..Len(os) :
            os[i].user = user /\ \A j \in 1..(i - 1) : os[j].user # user) - 1
    ELSE -1

\* addOwner storing the grant as passed.
AddOwnerAccess_AsPassed(access) == access

\* addOwner: edit access forces movement and vision on the passed grant.
AddOwnerAccess(access) ==
    IF access.edit
    THEN [access EXCEPT !.movement = TRUE, !.vision = TRUE]
    ELSE access

\* updateOwner without the rule that revokes edit.
UpdateOwnerAccess_NoRevoke(target, access) ==
    IF ~target.edit /\ access.edit
    THEN [access EXCEPT !.movement = TRUE, !.vision = TRUE]
    ELSE access

\* updateOwner: the grant stored for an entry whose access is target.  The
\* forcing writes owner.access, the object fullOwner.access refers to.
UpdateOwnerAccess(target, access) ==
    LET forced == IF ~target.edit /\ access.edit
                  THEN [access EXCEPT !.movement = TRUE, !.vision = TRUE]
                  ELSE access
    IN  IF target.edit /\ (~forced.edit \/ ~forced.vision \/ ~forced.movement)
        THEN [forced EXCEPT !.edit = FALSE]
        ELSE forced

\* updateDefaultOwner: the triple stored over the default access current.
UpdateDefaultAccess(current, access) ==
    LET forced == IF ~current.edit /\ access.edit
                  THEN [access EXCEPT !.movement = TRUE, !.vision = TRUE]
                  ELSE access
    IN  IF current.edit /\ (~forced.edit \/ ~forced.vision \/ ~forced.movement)
        THEN [forced EXCEPT !.edit = FALSE]
        ELSE forced

\* gameStore.ownedtokens after updateOwner changed the vision access of the
\* entry of targetUser from oldVision to newVision.
OwnedAfterUpdate(tokens, uuid, targetUser, oldVision, newVision) ==
    LET ownedIndex == IndexOf(tokens, uuid) IN
    IF oldVision # newVision /\ targetUser = username
    THEN IF newVision
         THEN (IF ownedIndex = -1 THEN Append(tokens, uuid) ELSE tokens)
         ELSE (IF ownedIndex >= 0 THEN Splice(tokens, ownedIndex) ELSE tokens)
    ELSE tokens

\* OwnedAfterDefault without the ownedIndex === -1 test before the push.
OwnedAfterDefault_PushesAgain(tokens, uuid, def, os) ==
    LET ownedIndex == IndexOf(tokens, uuid) IN
    IF def.vision
    THEN (IF OwnedByWith(uuid, def, os, VisionOnly)
          THEN Append(tokens, uuid) ELSE tokens)
    ELSE (IF ~OwnedByWith(uuid, def, os, VisionOnly) /\ ownedIndex >= 0
          THEN Splice(tokens, ownedIndex) ELSE tokens)

\* gameStore.ownedtokens after updateDefaultOwner stored the default def.
OwnedAfterDefault(tokens, uuid, def, os) ==
    LET ownedIndex == IndexOf(tokens, uuid) IN
    IF def.vision
    THEN (IF OwnedByWith(uuid, def, os, VisionOnly) /\ ownedIndex = -1
          THEN Append(tokens, uuid) ELSE tokens)
    ELSE (IF ~OwnedByWith(uuid, def, os, VisionOnly) /\ ownedIndex >= 0
          THEN Splice(tokens, ownedIndex) ELSE tokens)

\* gameStore.ownedtokens after setIsToken(token).
OwnedAfterToken(tokens, s, token) ==
    LET i == IndexOf(tokens, s) IN
    IF ownedBy(s, VisionOnly)
    THEN IF token /\ i = -1 THEN Append(tokens, s)
         ELSE IF ~token /\ i >= 0 THEN Splice(tokens, i)
         ELSE tokens
    ELSE tokens

\* LightCalls with the test of gameSettingsStore.fowLos negated.
LightCalls_Negated == IF fowLos THEN 0 ELSE 1

\* if (gameSettingsStore.fowLos) layerManager.invalidateLightAllFloors().
LightCalls == IF fowLos THEN 1 ELSE 0

\* socket.emit made whatever sync is.
Emit_Always(sync, kind, payload) == <<Event(kind, payload)>>

\* if (sync) socket.emit(kind, payload).
Emit(sync, kind, payload) == IF sync THEN <<Event(kind, payload)>> ELSE <<>>

\* The owner.shape of a call that passes no shape.
Absent == "absent"

\* OwnerShape with the spread written after the uuid overridden by it.
OwnerShape_AlwaysOwn(s, ownerShape) == s

\* { shape: this.uuid, ...owner }.shape: the shape the owner record names,
\* or the uuid of the receiver when it names none.
OwnerShape(s, ownerShape) == IF ownerShape = Absent THEN s ELSE ownerShape

\* --------------------------------------------------------- owner actions
\* A call of Shape.ownedBy(options): it returns and changes nothing.
OwnedBy(s, required) ==
    /\ ret' = ownedBy(s, required)
    /\ call' = Call("ownedBy", s, FALSE, username,
                    [edit |-> required.editAccess,
                     vision |-> required.visionAccess,
                     movement |-> required.movementAccess], TRUE)
    /\ emitted' = <<>>
    /\ triag' = <<>>
    /\ lightInvalidations' = 0
    /\ layerCalls' = <<>>
    /\ thrown' = NoError
    /\ logged' = <<>>
    /\ members' = <<>>
    /\ batch' = <<>>
    /\ UNCHANGED <<shapeVars, storeVars, sessionVars, detailVars, registryVars>>

\* Shape.addOwner(owner, sync); ownerShape is owner.shape, or Absent.
AddOwner(s, ownerShape, user, access, sync) ==
    LET fullOwner == [shape |-> OwnerShape(s, ownerShape),
                      user |-> user, access |-> AddOwnerAccess(access)]
        applies == fullOwner.shape = s /\ ~hasOwner(owners[s], user)
    IN
    /\ owners' = IF applies
                 THEN [owners EXCEPT ![s] = Append(@, fullOwner)]
                 ELSE owners
    /\ ownedtokens' = IF applies /\ fullOwner.access.vision /\ isToken[s]
                         /\ user = username
                      THEN Append(ownedtokens, s)
                      ELSE ownedtokens
    /\ emitted' = IF applies
                  THEN Emit(sync, "Shape.Owner.Add", ownerToServer(fullOwner))
                  ELSE <<>>
    /\ lightInvalidations' = IF applies THEN LightCalls ELSE 0
    /\ layerCalls' = <<>>
    /\ thrown' = NoError
    /\ logged' = <<>>
    /\ members' = <<>>
    /\ batch' = <<>>
    /\ call' = Call("addOwner", s, sync, user, access, applies)
    /\ ret' = FALSE
    /\ triag' = <<>>
    /\ UNCHANGED <<floor, visionObstruction, movementObstruction, auras,
                   defaultAccess, isToken, isInvisible, isLocked,
                   visionBlockers, movementBlockers, visionSources,
                   sessionVars, detailVars, registryVars>>

\* Shape.updateOwner(owner, sync); ownerShape is owner.shape, or Absent.
UpdateOwner(s, ownerShape, user, access, sync) ==
    LET applies == OwnerShape(s, ownerShape) = s
                   /\ hasOwner(owners[s], user)
        k == FindOwner(owners[s], user) + 1
        targetOwner == owners[s][k]
        newAccess == UpdateOwnerAccess(targetOwner.access, access)
        fullOwner == [shape |-> s, user |-> user, access |-> newAccess]
    IN
    /\ owners' = IF applies
                 THEN [owners EXCEPT ![s][k].access = newAccess]
                 ELSE owners
    /\ ownedtokens' = IF applies
                      THEN OwnedAfterUpdate(ownedtokens, s, targetOwner.user,
                               targetOwner.access.vision, newAccess.vision)
                      ELSE ownedtokens
    /\ emitted' = IF applies
                  THEN Emit(sync, "Shape.Owner.Update", ownerToServer(fullOwner))
                  ELSE <<>>
    /\ lightInvalidations' = IF applies THEN LightCalls ELSE 0
    /\ layerCalls' = <<>>
    /\ thrown' = NoError
    /\ logged' = <<>>
    /\ members' = <<>>
    /\ batch' = <<>>
    /\ call' = Call("updateOwner", s, sync, user, access, applies)
    /\ ret' = FALSE
    /\ triag' = <<>>
    /\ UNCHANGED <<floor, visionObstruction, movementObstruction, auras,
                   defaultAccess, isToken, isInvisible, isLocked,
                   visionBlockers, movementBlockers, visionSources,
                   sessionVars, detailVars, registryVars>>

\* Shape.removeOwner(owner, sync).
RemoveOwner(s, user, sync) ==
    LET ownerIndex == FindOwner(owners[s], user)
        applies == ownerIndex >= 0
        removed == owners[s][ownerIndex + 1]
        ownedIndex == IndexOf(ownedtokens, s)
    IN
    /\ owners' = IF applies
                 THEN [owners EXCEPT ![s] = Splice(@, ownerIndex)]
                 ELSE owners
    /\ ownedtokens' = IF applies /\ user = username /\ ownedIndex >= 0
                      THEN Splice(ownedtokens, ownedIndex)
                      ELSE ownedtokens
    /\ emitted' = IF applies
                  THEN Emit(sync, "Shape.Owner.Delete", ownerToServer(removed))
                  ELSE <<>>
    /\ lightInvalidations' = IF applies THEN LightCalls ELSE 0
    /\ layerCalls' = <<>>
    /\ thrown' = NoError
    /\ logged' = <<>>
    /\ members' = <<>>
    /\ batch' = <<>>
    /\ call' = Call("removeOwner", s, sync, user, NoAccess, applies)
    /\ ret' = FALSE
    /\ triag' = <<>>
    /\ UNCHANGED <<floor, visionObstruction, movementObstruction, auras,
                   defaultAccess, isToken, isInvisible, isLocked,
                   visionBlockers, movementBlockers, visionSources,
                   sessionVars, detailVars, registryVars>>

\* The effect of updateDefaultOwner(access, sync) on the default access, the
\* owned tokens, the light invalidation and the socket, on a shape object
\* whose default access is current and whose owner list is os when the call
\* is made.
DefaultOwnerUpdateFrom(s, current, os, access, sync) ==
    LET newAccess == UpdateDefaultAccess(current, access) IN
    /\ defaultAccess' = [defaultAccess EXCEPT ![s] = newAccess]
    /\ ownedtokens' = OwnedAfterDefault(ownedtokens, s, newAccess, os)
    /\ lightInvalidations' = LightCalls
    /\ emitted' = Emit(sync, "Shape.Owner.Default.Update",
                       accessToServer(newAccess) @@ [shape |-> s])

\* The same on the shape s as it stands.
DefaultOwnerUpdate(s, os, access, sync) ==
    DefaultOwnerUpdateFrom(s, defaultAccess[s], os, access, sync)

\* Shape.updateDefaultOwner(access, sync).
UpdateDefaultOwner(s, access, sync) ==
    /\ DefaultOwnerUpdate(s, owners[s], access, sync)
    /\ call' = Call("updateDefaultOwner", s, sync, "", access, TRUE)
    /\ layerCalls' = <<>>
    /\ thrown' = NoError
    /\ logged' = <<>>
    /\ members' = <<>>
    /\ batch' = <<>>
    /\ ret' = FALSE
    /\ triag' = <<>>
    /\ UNCHANGED <<floor, visionObstruction, movementObstruction, auras,
                   owners, isToken, isInvisible, isLocked, visionBlockers,
                   movementBlockers, visionSources, sessionVars,
                   detailVars, registryVars>>

\* Shape.setIsToken(isToken).
SetIsToken(s, token) ==
    /\ isToken' = [isToken EXCEPT ![s] = token]
    /\ ownedtokens' = OwnedAfterToken(ownedtokens, s, token)
    /\ call' = Call("setIsToken", s, token, "", NoAccess, TRUE)
    /\ ret' = FALSE
    /\ emitted' = <<>>
    /\ triag' = <<>>
    /\ lightInvalidations' = 0
    /\ layerCalls' = <<>>
    /\ thrown' = NoError
    /\ logged' = <<>>
    /\ members' = <<>>
    /\ batch' = <<>>
    /\ UNCHANGED <<floor, visionObstruction, movementObstruction, auras,
                   owners, defaultAccess, isInvisible, isLocked,
                   visionBlockers, movementBlockers, visionSources,
                   sessionVars, detailVars, registryVars>>

\* Shape.setInvisible(isInvisible, sync).
SetInvisible(s, invisible, sync) ==
    /\ isInvisible' = [isInvisible EXCEPT ![s] = invisible]
    /\ emitted' = Emit(sync, "Shape.Options.Invisible.Set",
                       [shape |-> s, is_invisible |-> invisible])
    /\ call' = Call("setInvisible", s, sync, "", NoAccess, TRUE)
    /\ ret' = FALSE
    /\ triag' = <<>>
    /\ lightInvalidations' = 0
    /\ layerCalls' = LayerCall(floor[s], layer[s], "invalidate(true)")
    /\ thrown' = LayerError(floor[s], layer[s])
    /\ logged' = <<>>
    /\ members' = <<>>
    /\ batch' = <<>>
    /\ UNCHANGED <<floor, visionObstruction, movementObstruction, auras,
                   owners, defaultAccess, isToken, isLocked, storeVars,
                   sessionVars, detailVars, registryVars>>

\* Shape.setLocked(isLocked, sync).
SetLocked(s, locked, sync) ==
    /\ isLocked' = [isLocked EXCEPT ![s] = locked]
    /\ emitted' = Emit(sync, "Shape.Options.Locked.Set",
                       [shape |-> s, is_locked |-> locked])
    /\ call' = Call("setLocked", s, sync, "", NoAccess, TRUE)
    /\ ret' = FALSE
    /\ triag' = <<>>
    /\ lightInvalidations' = 0
    /\ layerCalls' = LayerCall(floor[s], layer[s], "invalidate(true)")
    /\ thrown' = LayerError(floor[s], layer[s])
    /\ logged' = <<>>
    /\ members' = <<>>
    /\ batch' = <<>>
    /\ UNCHANGED <<floor, visionObstruction, movementObstruction, auras,
                   owners, defaultAccess, isToken, isInvisible, storeVars,
                   sessionVars, detailVars, registryVars>>

\* ------------------------------------------------------------ wire format
\* aurasToServer(auras): the wire records of an aura list.
aurasToServer(as) ==
    [k \in 1..Len(as) |->
        [uuid |-> as[k].uuid, vision_source |-> as[k].visionSource]]

\* aurasFromServer(auras): the aura list of its wire records.
aurasFromServer(ws) ==
    [k \in 1..Len(ws) |->
        [uuid |-> ws[k].uuid, visionSource |-> ws[k].vision_source]]

\* JSON.stringify([...this.options]): the text of the Map's entries.
JSONstringify(m) == [text |-> "entries", entries |-> m]

\* The empty string, and a text that JSON.parse rejects.
EmptyText == [text |-> "", entries |-> EmptyMap]
MalformedText == [text |-> "malformed", entries |-> EmptyMap]

\* if (text): a string is truthy unless it is empty.
Truthy(blob) == blob.text # ""

\* JSON.parse(text) returns the entries, or throws a SyntaxError.
Parses(blob) == blob.text = "entries"

\* Shape.getBaseDict(): the wire fields of the state modelled here.
getBaseDict(s) ==
    [uuid |-> s,
     angle |-> angle[s],
     floor |-> floor[s],
     layer |-> layer[s],
     movement_obstruction |-> movementObstruction[s],
     vision_obstruction |-> visionObstruction[s],
     auras |-> aurasToServer(auras[s]),
     owners |-> [k \in 1..Len(owners[s]) |-> ownerToServer(owners[s][k])],
     stroke_width |-> strokeWidth[s],
     name |-> name[s],
     annotation |-> annotation[s],
     is_token |-> isToken[s],
     is_invisible |-> isInvisible[s],
     options |-> JSONstringify(options[s]),
     is_locked |-> isLocked[s],
     default_edit_access |-> defaultAccess[s].edit,
     default_movement_access |-> defaultAccess[s].movement,
     default_vision_access |-> defaultAccess[s].vision]

\* The owner list fromDict stores for the payload data.
OwnersFromDict(data) ==
    [k \in 1..Len(data.owners) |-> ownerToClient(data.owners[k])]

\* The fields of shape s that fromDict assigns or reads.
Fields(s) ==
    [movementObstruction |-> movementObstruction[s],
     visionObstruction |-> visionObstruction[s],
     auras |-> auras[s], owners |-> owners[s], isToken |-> isToken[s],
     isInvisible |-> isInvisible[s], isLocked |-> isLocked[s],
     strokeWidth |-> strokeWidth[s], name |-> name[s],
     annotation |-> annotation[s], options |-> options[s],
     defaultAccess |-> defaultAccess[s]]

\* The same fields of a shape object just constructed.
FreshFields ==
    [movementObstruction |-> FALSE, visionObstruction |-> FALSE,
     auras |-> <<>>, owners |-> <<>>, isToken |-> FALSE,
     isInvisible |-> FALSE, isLocked |-> FALSE,
     strokeWidth |-> DefaultStrokeWidth, name |-> DefaultName,
     annotation |-> "", options |-> EmptyMap, defaultAccess |-> NoAccess]

\* How far fromDict(data) runs: the angle setter throws when the payload's
\* floor or layer is unknown (1), JSON.parse throws on a malformed options
\* text (2), or the call runs to its end (3).
FromDictReach(data) ==
    IF ~HasLayer(data.floor, data.layer) THEN 1
    ELSE IF Truthy(data.options) /\ ~Parses(data.options) THEN 2
    ELSE 3

\* Shape.fromDict(data) on a shape object with uuid s whose fields are prior
\* when the call is made.
FromDictFrom(s, prior, data) ==
    LET reach == FromDictReach(data)
        access == [edit |-> data.default_edit_access,
                   vision |-> data.default_vision_access,
                   movement |-> data.default_movement_access]
    IN
    /\ layer' = [layer EXCEPT ![s] = data.layer]
    /\ floor' = [floor EXCEPT ![s] = data.floor]
    /\ angle' = [angle EXCEPT ![s] = data.angle]
    /\ layerCalls' = LayerCall(data.floor, data.layer, "updateShapePoints")
    /\ movementObstruction' = [movementObstruction EXCEPT ![s] =
            IF reach >= 2 THEN data.movement_obstruction
            ELSE prior.movementObstruction]
    /\ visionObstruction' = [visionObstruction EXCEPT ![s] =
            IF reach >= 2 THEN data.vision_obstruction
            ELSE prior.visionObstruction]
    /\ auras' = [auras EXCEPT ![s] =
            IF reach >= 2 THEN aurasFromServer(data.auras) ELSE prior.auras]
    /\ owners' = [owners EXCEPT ![s] =
            IF reach >= 2 THEN OwnersFromDict(data) ELSE prior.owners]
    /\ isToken' = [isToken EXCEPT ![s] =
            IF reach >= 2 THEN data.is_token ELSE prior.isToken]
    /\ isInvisible' = [isInvisible EXCEPT ![s] =
            IF reach >= 2 THEN data.is_invisible ELSE prior.isInvisible]
    /\ isLocked' = [isLocked EXCEPT ![s] =
            IF reach >= 2 THEN data.is_locked ELSE prior.isLocked]
    /\ strokeWidth' = [strokeWidth EXCEPT ![s] = prior.strokeWidth]
    /\ annotation' = [annotation EXCEPT ![s] =
            IF reach >= 2 /\ data.annotation # "" THEN data.annotation
            ELSE prior.annotation]
    /\ name' = [name EXCEPT ![s] =
            IF reach >= 2 /\ data.name # "" THEN data.name ELSE prior.name]
    /\ options' = [options EXCEPT ![s] =
            IF reach = 3 /\ Truthy(data.options) THEN data.options.entries
            ELSE prior.options]
    /\ IF reach = 3
       THEN DefaultOwnerUpdateFrom(s, prior.defaultAccess, OwnersFromDict(data),
                                   access, FALSE)
       ELSE /\ defaultAccess' = [defaultAccess EXCEPT ![s] = prior.defaultAccess]
            /\ ownedtokens' = ownedtokens
            /\ lightInvalidations' = 0
            /\ emitted' = <<>>
    /\ thrown' = IF reach = 1 THEN TypeError
                 ELSE IF reach = 2 THEN SyntaxError
                 ELSE NoError
    /\ ret' = FALSE
    /\ triag' = <<>>
    /\ logged' = <<>>
    /\ members' = <<>>
    /\ batch' = <<>>
    /\ UNCHANGED <<visionBlockers, movementBlockers, visionSources, sessionVars,
                   registryVars>>

\* Shape.fromDict(data).
FromDict(s, data) ==
    /\ FromDictFrom(s, Fields(s), data)
    /\ call' = Call("fromDict", s, FALSE, "",
                    [edit |-> data.default_edit_access,
                     vision |-> data.default_vision_access,
                     movement |-> data.default_movement_access], TRUE)

\* t = new Shape(refPoint, ..., s.uuid); t.fromDict(s.getBaseDict()): the
\* shape s is replaced by its copy rebuilt from its own wire format.
Rebuild(s) ==
    /\ FromDictFrom(s, FreshFields, getBaseDict(s))
    /\ call' = Call("rebuild", s, FALSE, "", defaultAccess[s], TRUE)

\* Payloads that change the placement and the obstruction flags of shape s
\* and repeat its other fields.
ObstructionPayloads(s) ==
    {[getBaseDict(s) EXCEPT !.floor = f, !.movement_obstruction = m,
                            !.vision_obstruction = v] :
        f \in (IF s \in Movers THEN Floors ELSE {floor[s]}),
        m \in BOOLEAN, v \in BOOLEAN}

\* Owner records on the wire.
WireOwners(s) ==
    {ownerToServer([shape |-> s, user |-> u, access |-> a]) :
        u \in Users, a \in Access}

\* Payloads that change the owner list or the default access of shape s and
\* repeat its other fields.
OwnerPayloads(s) ==
    {[getBaseDict(s) EXCEPT !.owners = os] :
        os \in SeqsUpTo(WireOwners(s), MaxWireOwners)}
    \cup
    {[getBaseDict(s) EXCEPT !.default_edit_access = a.edit,
                            !.default_movement_access = a.movement,
                            !.default_vision_access = a.vision] :
        a \in Access}

\* ------------------------------------------------- public field writes
\* A write of a public field of shape s: no call is made, nothing is thrown.
FieldWrite(op, s) ==
    /\ call' = Call(op, s, FALSE, "", NoAccess, TRUE)
    /\ ret' = FALSE
    /\ emitted' = <<>>
    /\ triag' = <<>>
    /\ lightInvalidations' = 0
    /\ layerCalls' = <<>>
    /\ thrown' = NoError
    /\ logged' = <<>>
    /\ members' = <<>>
    /\ batch' = <<>>

\* shape.strokeWidth = w.
SetStrokeWidth(s, w) ==
    /\ strokeWidth' = [strokeWidth EXCEPT ![s] = w]
    /\ FieldWrite("strokeWidth=", s)
    /\ UNCHANGED <<shapeVars, storeVars, sessionVars, layer, angle, name,
                   annotation, options, registryVars>>

\* shape.name = n.
SetName(s, n) ==
    /\ name' = [name EXCEPT ![s] = n]
    /\ FieldWrite("name=", s)
    /\ UNCHANGED <<shapeVars, storeVars, sessionVars, layer, angle, strokeWidth,
                   annotation, options, registryVars>>

\* shape.annotation = a.
SetAnnotation(s, a) ==
    /\ annotation' = [annotation EXCEPT ![s] = a]
    /\ FieldWrite("annotation=", s)
    /\ UNCHANGED <<shapeVars, storeVars, sessionVars, layer, angle, strokeWidth,
                   name, options, registryVars>>

\* shape.options.set(key, value).
SetOption(s, key, value) ==
    /\ options' = [options EXCEPT ![s] = (key :> value) @@ @]
    /\ FieldWrite("options.set", s)
    /\ UNCHANGED <<shapeVars, storeVars, sessionVars, layer, angle, strokeWidth,
                   name, annotation, registryVars>>

\* shape.options.delete(key).
DeleteOption(s, key) ==
    /\ options' = [options EXCEPT ![s] =
                      [k \in (DOMAIN @) \ {key} |-> @[k]]]
    /\ FieldWrite("options.delete", s)
    /\ UNCHANGED <<shapeVars, storeVars, sessionVars, layer, angle, strokeWidth,
                   name, annotation, registryVars>>

\* Values of the fields carried for the round trip.
StrokeWidths == {DefaultStrokeWidth, 2}
Names == {DefaultName, "Goblin", ""}
Annotations == {"", "note"}

\* ------------------------------------------------------ inbound events
\* An id that no shape has.
UnknownShape == "s9"

\* layerManager.hasLayer(name).
hasLayer(l) == l \in Layers

\* RemoveBranch without the hasLayer test.
RemoveBranch_NoLayerTest(uuid, l) ==
    IF uuid \notin UUIDMap THEN "unknown shape" ELSE "remove"

\* The branch taken by the "remove shape" handler for a payload with that
\* uuid and layer name.
RemoveBranch(uuid, l) ==
    IF uuid \notin UUIDMap THEN "unknown shape"
    ELSE IF ~hasLayer(l) THEN "unknown layer"
    ELSE "remove"

\* The entries of a list that do not belong to the shape uuid.
WithoutShape(seq, uuid) == SelectSeq(seq, LAMBDA x : x # uuid)
WithoutPairsOf(vs, uuid) == SelectSeq(vs, LAMBDA p : p.shape # uuid)

\* socket.on("remove shape"): report and return for an unknown uuid or layer
\* name, otherwise layer.removeShape(shape, false), which takes the shape
\* out of the id map, the blocker sets and the vision sources, then
\* layer.invalidate(false).
RemoveShapeEvent(uuid, l) ==
    LET branch == RemoveBranch(uuid, l) IN
    /\ UUIDMap' = IF branch = "remove" THEN UUIDMap \ {uuid} ELSE UUIDMap
    /\ visionBlockers' = IF branch = "remove"
           THEN [f \in Floors |-> WithoutShape(visionBlockers[f], uuid)]
           ELSE visionBlockers
    /\ movementBlockers' = IF branch = "remove"
           THEN [f \in Floors |-> WithoutShape(movementBlockers[f], uuid)]
           ELSE movementBlockers
    /\ visionSources' = IF branch = "remove"
           THEN [f \in Floors |-> WithoutPairsOf(visionSources[f], uuid)]
           ELSE visionSources
    /\ layerCalls' = IF branch = "remove"
                     THEN <<"removeShape", "invalidate(false)">>
                     ELSE <<>>
    /\ logged' = IF branch = "unknown shape"
                 THEN <<"Attempted to remove an unknown shape">>
                 ELSE IF branch = "unknown layer"
                 THEN <<"Attempted to remove shape from an unknown layer">>
                 ELSE <<>>
    /\ call' = Call("remove shape", uuid, FALSE, "", NoAccess, branch = "remove")
    /\ thrown' = NoError
    /\ ret' = FALSE
    /\ emitted' = <<>>
    /\ triag' = <<>>
    /\ lightInvalidations' = 0
    /\ members' = <<>>
    /\ batch' = <<>>
    /\ UNCHANGED <<shapeVars, ownedtokens, sessionVars, detailVars>>

\* What the "clear temporaries" loop has done so far: the id map, the
\* blocker sets and vision sources, the lines logged and the layer calls.
BatchStart ==
    [map |-> UUIDMap, vb |-> visionBlockers, mb |-> movementBlockers,
     vs |-> visionSources, log |-> <<>>, calls |-> <<>>]

\* TemporaryBranch without the UUIDMap.has test.
TemporaryBranch_NoMapTest(map, uuid, l) ==
    IF ~hasLayer(l) THEN "unknown layer" ELSE "remove"

\* The branch the forEach callback takes for an entry with that uuid and
\* layer name when the id map holds map.
TemporaryBranch(map, uuid, l) ==
    IF uuid \notin map THEN "unknown shape"
    ELSE IF ~hasLayer(l) THEN "unknown layer"
    ELSE "remove"

\* The forEach callback on one entry: report and return, or
\* getLayer(...).removeShape(real_shape, false).
TemporaryStep(st, entry) ==
    LET branch == TemporaryBranch(st.map, entry.uuid, entry.layer) IN
    IF branch = "unknown shape"
    THEN [st EXCEPT !.log =
            Append(@, "Attempted to remove an unknown temporary shape")]
    ELSE IF branch = "unknown layer"
    THEN [st EXCEPT !.log =
            Append(@, "Attempted to remove shape from an unknown layer")]
    ELSE [map |-> st.map \ {entry.uuid},
          vb |-> [f \in Floors |-> WithoutShape(st.vb[f], entry.uuid)],
          mb |-> [f \in Floors |-> WithoutShape(st.mb[f], entry.uuid)],
          vs |-> [f \in Floors |-> WithoutPairsOf(st.vs[f], entry.uuid)],
          log |-> st.log,
          calls |-> Append(st.calls, "removeShape")]

\* shapes.forEach(callback) from the k-th entry on: a return in the callback
\* ends that entry only.
RECURSIVE ClearLoop(_, _, _)
ClearLoop(st, entries, k) ==
    IF k > Len(entries) THEN st
    ELSE ClearLoop(TemporaryStep(st, entries[k]), entries, k + 1)

\* socket.on("clear temporaries").
ClearTemporaries(entries) ==
    LET done == ClearLoop(BatchStart, entries, 1) IN
    /\ UUIDMap' = done.map
    /\ visionBlockers' = done.vb
    /\ movementBlockers' = done.mb
    /\ visionSources' = done.vs
    /\ logged' = done.log
    /\ layerCalls' = done.calls
    /\ batch' = entries
    /\ call' = Call("clear temporaries", "s1", FALSE, "", NoAccess,
                    done.calls # <<>>)
    /\ thrown' = NoError
    /\ ret' = FALSE
    /\ emitted' = <<>>
    /\ triag' = <<>>
    /\ lightInvalidations' = 0
    /\ members' = <<>>
    /\ UNCHANGED <<shapeVars, ownedtokens, sessionVars, detailVars>>

\* Largest number of entries in a "clear temporaries" batch.
MaxBatch == 2

\* The entries of a batch: a shape on a layer known or not, or an unknown
\* uuid, which is reported before the layer name is looked at.
Entries ==
    [uuid : Shapes, layer : LayerNames] \cup [uuid : {UnknownShape}, layer : Layers]
Batches == SeqsUpTo(Entries, MaxBatch)

\* ------------------------------------------------------- group members
\* Map.has(key) and Map.get(key) on the options of shape s.
OptionsHas(s, key) == key \in DOMAIN options[s]
OptionsGet(s, key) == options[s][key]

\* groupIds.reduce((acc, u) => UUIDMap.has(u) ? [...acc, UUIDMap.get(u)] : acc,
\* []) from the k-th id on.
RECURSIVE ReduceExisting(_, _, _)
ReduceExisting(acc, groupIds, k) ==
    IF k > Len(groupIds) THEN acc
    ELSE ReduceExisting(IF groupIds[k] \in UUIDMap
                        THEN Append(acc, groupIds[k]) ELSE acc,
                        groupIds, k + 1)

\* GroupMembersOf without the UUIDMap.has(u) test in the reduce.
GroupMembersOf_NoFilter(groupLeader) ==
    <<groupLeader>> \o OptionsGet(groupLeader, "groupInfo")

\* GroupMembersOf without the leader at the head of the list.
GroupMembersOf_WithoutLeader(groupLeader) ==
    ReduceExisting(<<>>, OptionsGet(groupLeader, "groupInfo"), 1)

\* The list returned for the group leader found.
GroupMembersOf(groupLeader) ==
    <<groupLeader>>
        \o ReduceExisting(<<>>, OptionsGet(groupLeader, "groupInfo"), 1)

\* Shape.getGroupMembers(), as the list of the uuids of the shapes returned.
getGroupMembers(s) ==
    IF ~(OptionsHas(s, "groupId") \/ OptionsHas(s, "groupInfo")) THEN <<s>>
    ELSE LET groupId == IF OptionsHas(s, "groupId")
                        THEN OptionsGet(s, "groupId") ELSE s
             groupLeader == IF groupId = s THEN s
                            ELSE IF groupId \in UUIDMap THEN groupId
                            ELSE Undefined
         IN  IF groupLeader = Undefined \/ ~OptionsHas(groupLeader, "groupInfo")
             THEN <<s>>
             ELSE GroupMembersOf(groupLeader)

\* A call of Shape.getGroupMembers(): it returns and changes nothing.
GetGroupMembers(s) ==
    /\ members' = getGroupMembers(s)
    /\ batch' = <<>>
    /\ call' = Call("getGroupMembers", s, FALSE, "", NoAccess, TRUE)
    /\ thrown' = NoError
    /\ ret' = FALSE
    /\ emitted' = <<>>
    /\ triag' = <<>>
    /\ lightInvalidations' = 0
    /\ layerCalls' = <<>>
    /\ logged' = <<>>
    /\ UNCHANGED <<shapeVars, storeVars, sessionVars, detailVars, registryVars>>

\* The ids a groupId or a groupInfo list can name, and the groupInfo lists.
GroupIds == Shapes \cup {UnknownShape}
GroupInfos == SeqsUpTo(GroupIds, MaxGroup)

\* Rotation angles, in steps.
Angles == 0..MaxAngle

\* Payloads that place shape s on a floor and layer, known or not, with an
\* angle and flags of their own, and repeat its other fields.
PlacementPayloads(s) ==
    {[getBaseDict(s) EXCEPT !.floor = f, !.layer = l, !.angle = a,
                            !.is_invisible = b] :
        f \in FloorNames, l \in LayerNames, a \in Angles, b \in BOOLEAN}

\* -------------------------------------------------------- session actions
\* socket.on("set username"): the name, and the DM flag derived from it.
SetUsername(u) ==
    /\ username' = u
    /\ IS_DM' = (u = DmUser)
    /\ call' = Call("set username", "s1", FALSE, u, NoAccess, TRUE)
    /\ ret' = FALSE
    /\ emitted' = <<>>
    /\ triag' = <<>>
    /\ lightInvalidations' = 0
    /\ layerCalls' = <<>>
    /\ thrown' = NoError
    /\ logged' = <<>>
    /\ members' = <<>>
    /\ batch' = <<>>
    /\ UNCHANGED <<shapeVars, storeVars, FAKE_PLAYER, activeTokens, fowLos,
                   detailVars, registryVars>>

\* The setting gameSettingsStore.fowLos is switched on or off.
SetFowLos(b) ==
    /\ fowLos' = b
    /\ FieldWrite("fowLos=", "s1")
    /\ UNCHANGED <<shapeVars, storeVars, username, IS_DM, FAKE_PLAYER,
                   activeTokens, detailVars, registryVars>>

\* The game master starts or stops impersonating a player whose active
\* tokens are tokens.
SetFakePlayer(fake, tokens) ==
    /\ FAKE_PLAYER' = fake
    /\ activeTokens' = tokens
    /\ call' = Call("setFakePlayer", "s1", fake, "", NoAccess, TRUE)
    /\ ret' = FALSE
    /\ emitted' = <<>>
    /\ triag' = <<>>
    /\ lightInvalidations' = 0
    /\ layerCalls' = <<>>
    /\ thrown' = NoError
    /\ logged' = <<>>
    /\ members' = <<>>
    /\ batch' = <<>>
    /\ UNCHANGED <<shapeVars, storeVars, username, IS_DM, fowLos,
                   detailVars, registryVars>>

\* ------------------------------------------------------- specifications
\* Flags, auras and the vision recheck, every shape staying on its floor.
NextSources ==
    \/ \E s \in Shapes, v \in BOOLEAN : SetVisionObstruction(s, v)
    \/ \E s \in Shapes, as \in AuraLists : SetAuras(s, as)
    \/ \E s \in Shapes, r \in BOOLEAN : CheckVisionSources(s, r)

SpecSources == Init /\ [][NextSources]_vars

\* The two obstruction toggles, every shape staying on its floor.
NextOneFloor ==
    \/ \E s \in Shapes, v \in BOOLEAN, r \in BOOLEAN : ToggleVision(s, v, r)
    \/ \E s \in Shapes, b \in BOOLEAN, r \in BOOLEAN : SetMovementBlock(s, b, r)

SpecOneFloor == Init /\ [][NextOneFloor]_vars

\* The two obstruction toggles with the shapes of Movers changing floor.
NextFloors ==
    \/ \E s \in Shapes, v \in BOOLEAN, r \in BOOLEAN : ToggleVision(s, v, r)
    \/ \E s \in Shapes, b \in BOOLEAN, r \in BOOLEAN : SetMovementBlock(s, b, r)
    \/ \E s \in Movers, f \in Floors, l \in Layers : SetLayer(s, f, l)

SpecFloors == Init /\ [][NextFloors]_vars

\* A wire payload rebuilds a shape, and the rechecks that follow.
NextWire ==
    \/ \E s \in Shapes : \E data \in ObstructionPayloads(s) : FromDict(s, data)
    \/ \E s \in Shapes, r \in BOOLEAN : CheckVisionSources(s, r)
    \/ \E s \in Shapes, b \in BOOLEAN, r \in BOOLEAN : SetMovementBlock(s, b, r)

SpecWire == Init /\ [][NextWire]_vars

\* The owner operations on the shapes of Subjects, for a player session.
NextOwners ==
    \/ \E s \in Subjects, u \in Users, a \in Access :
          AddOwner(s, Absent, u, a, FALSE)
    \/ \E s \in Subjects, u \in Users, a \in Access :
          UpdateOwner(s, Absent, u, a, FALSE)
    \/ \E s \in Subjects, u \in Users : RemoveOwner(s, u, FALSE)
    \/ \E s \in Subjects, a \in Access : UpdateDefaultOwner(s, a, FALSE)
    \/ \E s \in Subjects, b \in BOOLEAN : SetIsToken(s, b)

SpecOwners == Init /\ [][NextOwners]_vars

\* The owner operations and shapes rebuilt from wire payloads.
NextOwnersWire ==
    \/ \E s \in Subjects, u \in Users, a \in Access :
          AddOwner(s, Absent, u, a, FALSE)
    \/ \E s \in Subjects, u \in Users, a \in Access :
          UpdateOwner(s, Absent, u, a, FALSE)
    \/ \E s \in Subjects, u \in Users : RemoveOwner(s, u, FALSE)
    \/ \E s \in Subjects, a \in Access : UpdateDefaultOwner(s, a, FALSE)
    \/ \E s \in Subjects : \E data \in OwnerPayloads(s) : FromDict(s, data)

SpecOwnersWire == Init /\ [][NextOwnersWire]_vars

\* The grants the operations that emit socket events are called with.
SyncAccess == {NoAccess, [NoAccess EXCEPT !.vision = TRUE], FullAccess}

\* The operations that emit socket events, with and without sync.
NextSync ==
    \/ \E s \in Subjects, os \in Shapes \cup {Absent}, u \in Users,
          a \in SyncAccess, sync \in BOOLEAN : AddOwner(s, os, u, a, sync)
    \/ \E s \in Subjects, os \in Shapes \cup {Absent}, u \in Users,
          a \in SyncAccess, sync \in BOOLEAN : UpdateOwner(s, os, u, a, sync)
    \/ \E s \in Subjects, u \in Users, sync \in BOOLEAN : RemoveOwner(s, u, sync)
    \/ \E s \in Subjects, a \in SyncAccess, sync \in BOOLEAN :
          UpdateDefaultOwner(s, a, sync)
    \/ \E s \in Subjects, b \in BOOLEAN, sync \in BOOLEAN : SetInvisible(s, b, sync)
    \/ \E s \in Subjects, b \in BOOLEAN, sync \in BOOLEAN : SetLocked(s, b, sync)

SpecSync == Init /\ [][NextSync]_vars

\* The options ownedBy is called with: at least one required capability.
Required ==
    {o \in Capabilities : o.editAccess \/ o.visionAccess \/ o.movementAccess}

\* ownedBy under every session: any user, the game master, impersonation.
NextSession ==
    \/ \E s \in Subjects, u \in Users, a \in Access :
          AddOwner(s, Absent, u, a, FALSE)
    \/ \E s \in Subjects, a \in Access : UpdateDefaultOwner(s, a, FALSE)
    \/ \E u \in Users \cup {DmUser} : SetUsername(u)
    \/ \E fake \in BOOLEAN, tokens \in SUBSET Subjects : SetFakePlayer(fake, tokens)
    \/ \E s \in Subjects, required \in Required : OwnedBy(s, required)

SpecSession == Init /\ [][NextSession]_vars

\* Auras with uuids of their own, the vision recheck, and shapes that
\* change floor and leave their pairs behind in the registry of the old one.
NextRegistry ==
    \/ \E s \in Shapes : \E as \in OwnAuraLists(s) : SetAuras(s, as)
    \/ \E s \in Shapes, r \in BOOLEAN : CheckVisionSources(s, r)
    \/ \E s \in Shapes, f \in Floors, l \in Layers : SetLayer(s, f, l)

SpecRegistry == Init /\ [][NextRegistry]_vars

\* A shape takes field values and is rebuilt from its own wire format.
NextRoundTrip ==
    \/ \E s \in Subjects, w \in StrokeWidths : SetStrokeWidth(s, w)
    \/ \E s \in Subjects, n \in Names : SetName(s, n)
    \/ \E s \in Subjects, a \in Annotations : SetAnnotation(s, a)
    \/ \E s \in Subjects, g \in Shapes : SetOption(s, "groupId", g)
    \/ \E s \in Subjects : DeleteOption(s, "groupId")
    \/ \E s \in Subjects, u \in Users, a \in SyncAccess :
          AddOwner(s, Absent, u, a, FALSE)
    \/ \E s \in Subjects, a \in SyncAccess : UpdateDefaultOwner(s, a, FALSE)
    \/ \E s \in Subjects : Rebuild(s)

SpecRoundTrip == Init /\ [][NextRoundTrip]_vars

\* Shapes placed on floors and layers the layer manager may not know, and
\* the operations that reach for the shape's layer.
NextPlacement ==
    \/ \E s \in Subjects, f \in FloorNames, l \in LayerNames : SetLayer(s, f, l)
    \/ \E s \in Subjects, b \in BOOLEAN, sync \in BOOLEAN : SetInvisible(s, b, sync)
    \/ \E s \in Subjects, b \in BOOLEAN, sync \in BOOLEAN : SetLocked(s, b, sync)
    \/ \E s \in Subjects, a \in Angles : SetAngle(s, a)
    \/ \E s \in Subjects, delta \in {-1, 1} :
          angle[s] + delta \in Angles /\ RotateAround(s, delta)
    \/ \E s \in Subjects : \E data \in PlacementPayloads(s) : FromDict(s, data)

SpecPlacement == Init /\ [][NextPlacement]_vars

\* The options texts of payloads: the text of a Map, the empty string, and
\* a text that does not parse.
OptionTexts ==
    {JSONstringify(EmptyMap), JSONstringify("groupId" :> "s2"),
     EmptyText, MalformedText}

\* Payloads that carry an options text, a default access and a lock flag of
\* their own, and repeat the other fields of shape s.
OptionPayloads(s) ==
    {[getBaseDict(s) EXCEPT !.options = o, !.is_locked = b,
                            !.default_edit_access = a.edit,
                            !.default_movement_access = a.movement,
                            !.default_vision_access = a.vision] :
        o \in OptionTexts, a \in SyncAccess, b \in BOOLEAN}

\* Shapes rebuilt from payloads whose options text may not parse.
NextOptions ==
    \/ \E s \in Shapes : \E data \in OptionPayloads(s) : FromDict(s, data)
    \/ \E s \in Shapes, g \in Shapes : SetOption(s, "groupId", g)

SpecOptions == Init /\ [][NextOptions]_vars

\* Shapes that block, and "remove shape" events for known and unknown ids
\* and layer names, each of which can be delivered again.
NextRemove ==
    \/ \E s \in Shapes, v \in BOOLEAN, r \in BOOLEAN : ToggleVision(s, v, r)
    \/ \E s \in Shapes, b \in BOOLEAN, r \in BOOLEAN : SetMovementBlock(s, b, r)
    \/ \E uuid \in Shapes \cup {UnknownShape}, l \in LayerNames :
          RemoveShapeEvent(uuid, l)

SpecRemove == Init /\ [][NextRemove]_vars

\* Group options set and dropped, shapes removed, and the member lookup;
\* the shapes of Subjects are the ones given a groupInfo list.
NextGroups ==
    \/ \E s \in Shapes, g \in GroupIds : SetOption(s, "groupId", g)
    \/ \E s \in Subjects, info \in GroupInfos : SetOption(s, "groupInfo", info)
    \/ \E s \in Shapes, key \in {"groupId", "groupInfo"} : DeleteOption(s, key)
    \/ \E uuid \in Shapes : RemoveShapeEvent(uuid, "tokens")
    \/ \E s \in Shapes : GetGroupMembers(s)

SpecGroups == Init /\ [][NextGroups]_vars

\* The owner operations under both values of the line-of-sight setting.
NextLight ==
    \/ \E b \in BOOLEAN : SetFowLos(b)
    \/ \E s \in Subjects, u \in Users, a \in SyncAccess, sync \in BOOLEAN :
          AddOwner(s, Absent, u, a, sync)
    \/ \E s \in Subjects, u \in Users, a \in SyncAccess, sync \in BOOLEAN :
          UpdateOwner(s, Absent, u, a, sync)
    \/ \E s \in Subjects, u \in Users, sync \in BOOLEAN : RemoveOwner(s, u, sync)
    \/ \E s \in Subjects, a \in SyncAccess, sync \in BOOLEAN :
          UpdateDefaultOwner(s, a, sync)

SpecLight == Init /\ [][NextLight]_vars

\* The owner operations with owner records that name the shape, another
\* shape or none, for users with and without an entry, with the
\* line-of-sight setting on and off.
NextRejected ==
    \/ \E b \in BOOLEAN : SetFowLos(b)
    \/ \E s \in Subjects, b \in BOOLEAN : SetIsToken(s, b)
    \/ \E s \in Subjects, os \in Shapes \cup {Absent}, u \in Users,
          a \in SyncAccess, sync \in BOOLEAN : AddOwner(s, os, u, a, sync)
    \/ \E s \in Subjects, os \in Shapes \cup {Absent}, u \in Users,
          a \in SyncAccess, sync \in BOOLEAN : UpdateOwner(s, os, u, a, sync)
    \/ \E s \in Subjects, u \in Users, sync \in BOOLEAN : RemoveOwner(s, u, sync)

SpecRejected == Init /\ [][NextRejected]_vars

\* Shapes that block, and "clear temporaries" batches of known and unknown
\* entries in every order.
NextTemporaries ==
    \/ \E s \in Shapes, b \in BOOLEAN : SetMovementBlock(s, b, FALSE)
    \/ \E entries \in Batches : ClearTemporaries(entries)

SpecTemporaries == Init /\ [][NextTemporaries]_vars

\* The vision flag written and rechecked in separate steps, setMovementBlock,
\* and the shapes of Movers changing floor between the calls.
NextRecheck ==
    \/ \E s \in Shapes, v \in BOOLEAN : SetVisionObstruction(s, v)
    \/ \E s \in Shapes, r \in BOOLEAN : CheckVisionSources(s, r)
    \/ \E s \in Shapes, b \in BOOLEAN, r \in BOOLEAN : SetMovementBlock(s, b, r)
    \/ \E s \in Movers, f \in Floors, l \in Layers : SetLayer(s, f, l)

SpecRecheck == Init /\ [][NextRecheck]_vars

\* Every operation on every input above.
Next ==
    \/ NextSources
    \/ NextOneFloor
    \/ NextFloors
    \/ NextWire
    \/ NextOwners
    \/ NextOwnersWire
    \/ NextSync
    \/ NextSession
    \/ NextRegistry
    \/ NextRoundTrip
    \/ NextPlacement
    \/ NextOptions
    \/ NextRemove
    \/ NextGroups
    \/ NextLight
    \/ NextRejected
    \/ NextRecheck
    \/ NextTemporaries

Spec == Init /\ [][Next]_vars

\* ------------------------------------------------------------------ claims
\* C1: a checkVisionSources call that directly follows a checkVisionSources
\* call on the same shape returns false and changes neither the vision
\* blocker sets nor the vision-source registry.
C1_SecondCheckIsNoOp ==
    [][(call.op = "checkVisionSources" /\ call'.op = "checkVisionSources"
        /\ call'.shape = call.shape)
       => (/\ ret' = FALSE
           /\ visionBlockers' = visionBlockers
           /\ visionSources' = visionSources)]_vars

\* C1 witness: a checkVisionSources call has returned false on a shape that
\* an earlier call put in the blocker set and in the registry, while another
\* shape holds entries there too.
C1_Witness ==
    /\ call.op = "checkVisionSources"
    /\ ret = FALSE
    /\ visionObstruction[call.shape]
    /\ IndexOf(visionBlockers[floor[call.shape]], call.shape) = 1
    /\ \E i \in 1..Len(visionSources[floor[call.shape]]) :
            visionSources[floor[call.shape]][i].shape = call.shape
    /\ \E i \in 1..Len(visionSources[floor[call.shape]]) :
            visionSources[floor[call.shape]][i].shape # call.shape

\* Number of occurrences the flag asks for: one when on, none when off.
Wanted(flag) == IF flag THEN 1 ELSE 0

\* C2: on one floor, after every toggle the shape's id occurs in the floor's
\* movement (vision) blocker set exactly once when the movement (vision)
\* flag is on and not at all when it is off, and a call that turns a flag on
\* from off returns true.
C2_BlockerSetMatchesFlag ==
    [][/\ \A s \in Shapes :
            /\ Count(movementBlockers'[floor'[s]], s) = Wanted(movementObstruction'[s])
            /\ Count(visionBlockers'[floor'[s]], s) = Wanted(visionObstruction'[s])
       /\ (call'.op = "setMovementBlock"
           /\ ~movementObstruction[call'.shape]
           /\ movementObstruction'[call'.shape]) => ret'
       /\ (call'.op = "toggleVision"
           /\ ~visionObstruction[call'.shape]
           /\ visionObstruction'[call'.shape]) => ret']_vars

\* C2 witness: a toggle turned the vision flag of a shape off and returned
\* true while the shape stays a movement blocker listed after another shape.
C2_Witness ==
    /\ call.op = "toggleVision"
    /\ ret
    /\ ~visionObstruction[call.shape]
    /\ movementObstruction[call.shape]
    /\ IndexOf(movementBlockers[floor[call.shape]], call.shape) = 1
    /\ Len(visionBlockers[floor[call.shape]]) = 1

\* A grant gives every capability the options require.
Grants(access, required) ==
    /\ required.editAccess => access.edit
    /\ required.visionAccess => access.vision
    /\ required.movementAccess => access.movement

\* The options recorded with an ownedBy call.
CalledOptions ==
    [editAccess |-> call.access.edit, visionAccess |-> call.access.vision,
     movementAccess |-> call.access.movement]

\* C3 as stated: ownedBy(R) returns true exactly when the user is the game
\* master, or impersonates a player with the shape among the active tokens,
\* or the default access grants every capability of R, or the user's own
\* entry grants every capability of R.
C3_OwnedByAllRequired ==
    call.op = "ownedBy" =>
        ret = (\/ IS_DM
               \/ (FAKE_PLAYER /\ call.shape \in activeTokens)
               \/ Grants(defaultAccess[call.shape], CalledOptions)
               \/ \E i \in 1..Len(owners[call.shape]) :
                    /\ owners[call.shape][i].user = username
                    /\ Grants(owners[call.shape][i].access, CalledOptions))

\* The access of the first entry of user in owner list os.
StoredAccess(os, user) == os[FindOwner(os, user) + 1].access

\* C4: when addOwner or updateOwner was called with edit = true and stored
\* the grant with edit true, the user's entry has vision and movement true;
\* when updateDefaultOwner was called with edit = true and the default access
\* has edit true, it has vision and movement true.
C4_EditForcesVisionAndMovement ==
    /\ (call.op \in {"addOwner", "updateOwner"} /\ call.applied
        /\ call.access.edit
        /\ StoredAccess(owners[call.shape], call.user).edit)
       => (/\ StoredAccess(owners[call.shape], call.user).vision
           /\ StoredAccess(owners[call.shape], call.user).movement)
    /\ (call.op = "updateDefaultOwner" /\ call.access.edit
        /\ defaultAccess[call.shape].edit)
       => (defaultAccess[call.shape].vision /\ defaultAccess[call.shape].movement)

\* C4 witness: updateOwner was passed edit without vision and movement and
\* the entry holds all three.
C4_Witness ==
    /\ call.op = "updateOwner"
    /\ call.applied
    /\ call.access = [edit |-> TRUE, vision |-> FALSE, movement |-> FALSE]
    /\ StoredAccess(owners[call.shape], call.user) = FullAccess

\* C5: an updateOwner (updateDefaultOwner) call on a stored grant with edit
\* true whose new access has vision or movement false leaves the stored
\* grant with edit false.
C5_PartialDowngradeRevokesEdit ==
    [][/\ (call'.op = "updateOwner" /\ call'.applied
           /\ StoredAccess(owners[call'.shape], call'.user).edit
           /\ (~call'.access.vision \/ ~call'.access.movement))
          => ~StoredAccess(owners'[call'.shape], call'.user).edit
       /\ (call'.op = "updateDefaultOwner"
           /\ defaultAccess[call'.shape].edit
           /\ (~call'.access.vision \/ ~call'.access.movement))
          => ~defaultAccess'[call'.shape].edit]_vars

\* C5 witness: updateOwner was passed edit and movement without vision on an
\* entry that had edit, and the entry has lost edit.
C5_Witness ==
    /\ call.op = "updateOwner"
    /\ call.applied
    /\ call.access = [edit |-> TRUE, vision |-> FALSE, movement |-> TRUE]
    /\ StoredAccess(owners[call.shape], call.user)
         = [edit |-> FALSE, vision |-> FALSE, movement |-> TRUE]

\* C6 as stated: every owner entry and the default access of every shape
\* have vision and movement whenever they have edit.
C6_EditImpliesFullAccess ==
    \A s \in Shapes :
        /\ defaultAccess[s].edit =>
                (defaultAccess[s].vision /\ defaultAccess[s].movement)
        /\ \A i \in 1..Len(owners[s]) :
                owners[s][i].access.edit =>
                    (owners[s][i].access.vision /\ owners[s][i].access.movement)

\* C7: the owner list holds at most one entry per user, and addOwner for a
\* user who has an entry leaves the owner list as it was.
C7_OneEntryPerUser ==
    [][/\ \A s \in Shapes, u \in Users :
            Cardinality({i \in 1..Len(owners'[s]) : owners'[s][i].user = u}) <= 1
       /\ (call'.op = "addOwner" /\ hasOwner(owners[call'.shape], call'.user))
          => owners' = owners]_vars

\* C7 witness: addOwner was called with another grant for a user who has an
\* entry, on a shape with two owners.
C7_Witness ==
    /\ call.op = "addOwner"
    /\ ~call.applied
    /\ Len(owners[call.shape]) = 2
    /\ hasOwner(owners[call.shape], call.user)
    /\ StoredAccess(owners[call.shape], call.user) # AddOwnerAccess(call.access)

\* The operations that take a sync flag, and the event each emits.
EventOf(op) ==
    CASE op = "addOwner" -> "Shape.Owner.Add"
      [] op = "updateOwner" -> "Shape.Owner.Update"
      [] op = "removeOwner" -> "Shape.Owner.Delete"
      [] op = "updateDefaultOwner" -> "Shape.Owner.Default.Update"
      [] op = "setInvisible" -> "Shape.Options.Invisible.Set"
      [] op = "setLocked" -> "Shape.Options.Locked.Set"
      [] OTHER -> "none"

\* C8: a call with sync = false emits nothing; a call with sync = true that
\* changes a field of the shape emits exactly one event, of the kind of the
\* operation and carrying the shape's id.
C8_SyncDecidesEmit ==
    [][EventOf(call'.op) # "none" =>
        /\ ~call'.flag => emitted' = <<>>
        /\ (call'.flag /\ shapeVars' # shapeVars) =>
            /\ Len(emitted') = 1
            /\ emitted'[1].kind = EventOf(call'.op)
            /\ emitted'[1].payload.shape = call'.shape]_vars

\* C8 witness: an updateOwner with sync = true changed an entry and emitted
\* its event.
C8_Witness ==
    /\ call.op = "updateOwner"
    /\ call.flag
    /\ call.applied
    /\ Len(emitted) = 1
    /\ emitted[1].kind = "Shape.Owner.Update"
    /\ emitted[1].payload.vision_access

\* C9 as stated: when fromDict returns, the shape's id is in the vision
\* (movement) blocker set of its floor exactly when the vision (movement)
\* flag is on.
C9_FromDictKeepsBlockersConsistent ==
    call.op = "fromDict" =>
        /\ (Count(visionBlockers[floor[call.shape]], call.shape) > 0)
                = visionObstruction[call.shape]
        /\ (Count(movementBlockers[floor[call.shape]], call.shape) > 0)
                = movementObstruction[call.shape]

\* C9 amended: fromDict changes no blocker set; the shape's id is in the
\* vision (movement) blocker set of its floor exactly when the flag is on
\* once checkVisionSources (setMovementBlock) has run after it.
C9_RecheckRestoresConsistency ==
    [][/\ call'.op = "fromDict" =>
            /\ visionBlockers' = visionBlockers
            /\ movementBlockers' = movementBlockers
       /\ call'.op = "checkVisionSources" =>
            Count(visionBlockers'[floor'[call'.shape]], call'.shape)
                = Wanted(visionObstruction'[call'.shape])
       /\ call'.op = "setMovementBlock" =>
            Count(movementBlockers'[floor'[call'.shape]], call'.shape)
                = Wanted(movementObstruction'[call'.shape])]_vars

\* C9 witness: a payload turned the vision flag of a blocking shape off and
\* the checkVisionSources that followed removed the id and returned true.
C9_Witness ==
    /\ call.op = "checkVisionSources"
    /\ ret
    /\ ~visionObstruction[call.shape]
    /\ Count(visionBlockers[floor[call.shape]], call.shape) = 0

Pair(s, a) == [shape |-> s, aura |-> a]

C12_RoundTripKeepsWireFields ==
    [][\A s \in Shapes :
          (call'.op = "rebuild" /\ call'.shape = s)
              => getBaseDict(s)' = getBaseDict(s)]_vars

\* The call that follows repeats the last call: the same operation on the
\* same shape with the same user, access triple and sync flag.
Replayed(op) ==
    /\ call.op = op /\ call'.op = op
    /\ call'.shape = call.shape /\ call'.user = call.user
    /\ call'.access = call.access
    /\ call.flag = FALSE /\ call'.flag = FALSE

\* An access triple in which edit comes with vision and movement.
SelfConsistent(a) == a.edit => (a.vision /\ a.movement)

\* C13 as stated: an updateOwner (resp. updateDefaultOwner) call with sync =
\* false that repeats the call before it, whatever the access triple, leaves
\* the owner list (resp. the default access) and the owned tokens as the
\* first call left them.
C13_ReplayIsIdempotent ==
    [][/\ Replayed("updateOwner")
          => (owners' = owners /\ ownedtokens' = ownedtokens)
       /\ Replayed("updateDefaultOwner")
          => (defaultAccess' = defaultAccess /\ ownedtokens' = ownedtokens)]_vars

\* C13 amended: the same for the access triples in which edit comes with
\* vision and movement, as in every triple these operations store and emit.
C13_ConsistentReplayIsIdempotent ==
    [][/\ (Replayed("updateOwner") /\ SelfConsistent(call.access))
          => (owners' = owners /\ ownedtokens' = ownedtokens)
       /\ (Replayed("updateDefaultOwner") /\ SelfConsistent(call.access))
          => (defaultAccess' = defaultAccess /\ ownedtokens' = ownedtokens)]_vars

\* C13 is reached: an applied updateOwner with a self-consistent triple has
\* changed the entry of the session's user on a token, which is now among
\* the owned tokens, and the same call can be delivered again.
C13_Witness ==
    /\ call.op = "updateOwner" /\ call.applied /\ call.flag = FALSE
    /\ call.user = username /\ SelfConsistent(call.access)
    /\ call.access.vision /\ ~call.access.edit
    /\ isToken[call.shape]
    /\ hasOwner(owners[call.shape], call.user)
    /\ StoredAccess(owners[call.shape], call.user) = call.access
    /\ Count(ownedtokens, call.shape) = 1

\* The operations that reach for the layer of the shape they are called on.
LayerOps == {"setInvisible", "setLocked", "angle=", "rotateAround", "fromDict"}

\* The floor and layer name the layer is looked up with by the call that is
\* being made on shape s: those fromDict has just taken from its payload,
\* those of the shape for the other operations.
LookedUpUnknown(s) ==
    IF call'.op = "fromDict"
    THEN ~HasLayer(floor'[s], layer'[s])
    ELSE ~HasLayer(floor[s], layer[s])

\* C14: a setInvisible, setLocked, angle assignment, rotateAround or fromDict
\* on a shape whose floor or layer name the layer manager does not know
\* throws nothing and leaves every field of the shape as it was.
C14_UnknownLayerIsNoOp ==
    [][\A s \in Shapes :
          (call'.op \in LayerOps /\ call'.shape = s /\ LookedUpUnknown(s))
              => (/\ thrown' = NoError
                  /\ Fields(s)' = Fields(s)
                  /\ angle'[s] = angle[s])]_vars

\* C15: when fromDict is given a payload whose options text does not parse,
\* nothing is thrown, the options of the shape stay as they were, and the
\* rest of the payload is applied: here its lock flag, and its default
\* access, which fromDict applies after the options.
C15_MalformedOptionsAreSkipped ==
    [][\A s \in Shapes : \A data \in OptionPayloads(s) :
          (/\ FromDict(s, data)
           /\ Truthy(data.options) /\ ~Parses(data.options))
              => (/\ thrown' = NoError
                  /\ options'[s] = options[s]
                  /\ isLocked'[s] = data.is_locked
                  /\ defaultAccess'[s] =
                        UpdateDefaultAccess(defaultAccess[s],
                            [edit |-> data.default_edit_access,
                             vision |-> data.default_vision_access,
                             movement |-> data.default_movement_access]))]_vars

\* C16: a "remove shape" event whose uuid is not in the id map, or whose
\* layer name the layer manager does not know, removes no shape, calls
\* nothing on a layer, emits nothing, logs one line and throws nothing; so
\* does the event delivered again after the shape was removed.
C16_UnknownRemoveIsNoOp ==
    [][\A uuid \in Shapes \cup {UnknownShape}, l \in LayerNames :
          (RemoveShapeEvent(uuid, l) /\ (uuid \notin UUIDMap \/ l \notin Layers))
              => (/\ UNCHANGED <<UUIDMap, shapeVars, storeVars, detailVars>>
                  /\ layerCalls' = <<>>
                  /\ emitted' = <<>>
                  /\ Len(logged') = 1
                  /\ thrown' = NoError)]_vars

\* C16 is reached: the event for s1 was delivered after s1 had been removed
\* from the id map, while s2 still blocks vision; it was reported and
\* nothing was removed.
C16_Witness ==
    /\ call.op = "remove shape" /\ call.shape = "s1" /\ ~call.applied
    /\ "s1" \notin UUIDMap /\ "s2" \in UUIDMap
    /\ Count(visionBlockers["f1"], "s2") = 1
    /\ logged = <<"Attempted to remove an unknown shape">>

\* The ids of a list that the id map holds, in the order of the list.
Existing(ids) == SelectSeq(ids, LAMBDA u : u \in UUIDMap)

\* C17: getGroupMembers returns [self] for a shape with neither groupId nor
\* groupInfo; for a leader (groupInfo, and no groupId but its own) the leader
\* followed by the listed shapes that exist, in groupInfo order; for a member
\* whose groupId names an unknown shape or a shape without groupInfo,
\* [self]; and it never throws.
C17_GroupMembersTolerateGaps ==
    call.op = "getGroupMembers" =>
        LET s == call.shape
            hasId == "groupId" \in DOMAIN options[s]
            hasInfo == "groupInfo" \in DOMAIN options[s]
            leads == hasInfo /\ (hasId => options[s]["groupId"] = s)
            follows == hasId /\ options[s]["groupId"] # s
            g == options[s]["groupId"]
        IN
        /\ thrown = NoError
        /\ (~hasId /\ ~hasInfo) => members = <<s>>
        /\ leads => members = <<s>> \o Existing(options[s]["groupInfo"])
        /\ (follows /\ (g \notin UUIDMap
                         \/ "groupInfo" \notin DOMAIN options[g]))
              => members = <<s>>

\* C17 is reached: the leader s1 lists s2 and an id that no shape has, and
\* its member list is the leader and s2.
C17_Witness ==
    /\ call.op = "getGroupMembers" /\ call.shape = "s1"
    /\ "groupInfo" \in DOMAIN options["s1"]
    /\ "groupId" \notin DOMAIN options["s1"]
    /\ options["s1"]["groupInfo"] = <<UnknownShape, "s2">>
    /\ "s2" \in UUIDMap
    /\ members = <<"s1", "s2">>

\* The four operations that change who owns a shape.
OwnerOps == {"addOwner", "updateOwner", "removeOwner", "updateDefaultOwner"}

\* C18: while fowLos is on, an addOwner, updateOwner, removeOwner or
\* updateDefaultOwner call that changes the owner list or the default access
\* invalidates the light of all floors before it returns, whatever sync is.
C18_OwnerChangeInvalidatesLight ==
    [][(/\ fowLos
        /\ call'.op \in OwnerOps
        /\ (owners' # owners \/ defaultAccess' # defaultAccess))
          => lightInvalidations' >= 1]_vars

\* C18 is reached: with fowLos on, a removeOwner call with sync = false has
\* removed the only entry and the light was invalidated.
C18_Witness ==
    /\ fowLos
    /\ call.op = "removeOwner" /\ call.applied /\ call.flag = FALSE
    /\ owners[call.shape] = <<>>
    /\ lightInvalidations = 1

\* What a rejected owner operation leaves alone: the owner list, the default
\* access and the owned tokens are unchanged, nothing is emitted and the
\* light is not invalidated.
NothingApplied ==
    /\ UNCHANGED <<owners, defaultAccess, ownedtokens>>
    /\ emitted' = <<>>
    /\ lightInvalidations' = 0

\* C19: updateOwner and removeOwner for a user without an entry, addOwner
\* for a user with an entry, and addOwner or updateOwner with an owner
\* record that names another shape, apply nothing, also with sync = true
\* and with fowLos on.
C19_RejectedOwnerCallsApplyNothing ==
    [][\A s \in Subjects, u \in Users, sync \in BOOLEAN :
          (call'.shape = s /\ call'.user = u /\ call'.flag = sync) =>
          /\ (call'.op = "removeOwner" /\ RemoveOwner(s, u, sync)
                /\ ~hasOwner(owners[s], u))
                => NothingApplied
          /\ \A os \in Shapes \cup {Absent}, a \in SyncAccess :
                /\ (call'.op = "addOwner" /\ call'.access = a
                    /\ AddOwner(s, os, u, a, sync)
                    /\ (hasOwner(owners[s], u) \/ os \notin {Absent, s}))
                      => NothingApplied
                /\ (call'.op = "updateOwner" /\ call'.access = a
                    /\ UpdateOwner(s, os, u, a, sync)
                    /\ (~hasOwner(owners[s], u) \/ os \notin {Absent, s}))
                      => NothingApplied]_vars

\* C19 is reached: with fowLos on, an updateOwner call with sync = true for
\* a user who has an entry was rejected, which only an owner record naming
\* another shape brings about.
C19_Witness ==
    /\ fowLos
    /\ call.op = "updateOwner" /\ call.flag /\ ~call.applied
    /\ hasOwner(owners[call.shape], call.user)
    /\ emitted = <<>> /\ lightInvalidations = 0

\* The requests an altering call with recalculate = true makes for shape s:
\* the change of the triangulation for the target, then the recomputation
\* of the target on the floor of s.
ExpectedRequests(target, s, inserted) ==
    <<Req(IF inserted THEN "addToTriag" ELSE "deleteFromTriag", target, s),
      Req(IF target = "vision" THEN "recalculateVision"
          ELSE "recalculateMovement", target, floor[s])>>

\* C20: when a vision recheck (resp. setMovementBlock) with recalculate =
\* true has altered the blocker set, it has made exactly two requests: first
\* the one change of the triangulation for this shape and target, add when
\* the id was inserted and remove when it was removed, then the one
\* recomputation for that target and the floor of the shape.
C20_AlteredRequestsTriagThenRecompute ==
    /\ (call.op \in {"toggleVision", "checkVisionSources"} /\ ret /\ call.flag)
          => triag = ExpectedRequests("vision", call.shape,
                                      visionObstruction[call.shape])
    /\ (call.op = "setMovementBlock" /\ ret /\ call.flag)
          => triag = ExpectedRequests("movement", call.shape,
                                      movementObstruction[call.shape])

\* C20 is reached: setMovementBlock(false, true) has removed s1 from the
\* movement blockers of the floor f2 it had moved to and blocked on.
C20_Witness ==
    /\ call.op = "setMovementBlock" /\ call.shape = "s1" /\ ret /\ call.flag
    /\ floor["s1"] = "f2" /\ ~movementObstruction["s1"]
    /\ Count(movementBlockers["f2"], "s1") = 0
    /\ triag = <<Req("deleteFromTriag", "movement", "s1"),
                 Req("recalculateMovement", "movement", "f2")>>

\* The shape's id is in the list of blockers.
Member(blockers, uuid) == Count(blockers, uuid) > 0

\* C21: a checkVisionSources (setMovementBlock) call on a shape whose vision
\* flag (whose blocksMovement argument) already matches the membership of its
\* id in the blocker set of its floor returns false, leaves the blocker sets
\* as they were and makes no request to the visibility store; and a call of
\* either with recalculate = false makes no request, also when it alters the
\* blocker set.
C21_NoOpAndUnbatchedRequestNothing ==
    [][/\ (call'.op = "checkVisionSources"
           /\ Member(visionBlockers[floor[call'.shape]], call'.shape)
                = visionObstruction[call'.shape])
          => (/\ ret' = FALSE /\ triag' = <<>>
              /\ visionBlockers' = visionBlockers)
       /\ (call'.op = "setMovementBlock"
           /\ Member(movementBlockers[floor[call'.shape]], call'.shape)
                = movementObstruction'[call'.shape])
          => (/\ ret' = FALSE /\ triag' = <<>>
              /\ movementBlockers' = movementBlockers)
       /\ (call'.op \in {"checkVisionSources", "setMovementBlock"}
           /\ ~call'.flag)
          => triag' = <<>>]_vars

\* C21 is reached: a checkVisionSources call with recalculate = false has
\* put s1 in the vision blocker set of the floor f2 it had moved to, and
\* returned true without a request, while f1 still lists s1.
C21_Witness ==
    /\ call.op = "checkVisionSources" /\ call.shape = "s1" /\ ~call.flag
    /\ ret /\ triag = <<>>
    /\ floor["s1"] = "f2" /\ visionObstruction["s1"]
    /\ Count(visionBlockers["f2"], "s1") = 1
    /\ Count(visionBlockers["f1"], "s1") = 1

\* The entries of the batch that name a shape of the id map and a layer the
\* layer manager knows, and the other entries.
KnownEntry(e) == e.uuid \in UUIDMap /\ e.layer \in Layers
KnownIds(entries) ==
    {entries[i].uuid : i \in {j \in 1..Len(entries) : KnownEntry(entries[j])}}

\* C22: a "clear temporaries" batch throws nothing and emits nothing; when
\* it has run, every entry whose uuid and layer were known has its shape
\* removed from the id map and the blocker sets by one removeShape call,
\* wherever the entry stands in the batch; no other shape is removed; and
\* every entry that removed nothing has logged one line.
C22_UnknownEntriesDoNotStopBatch ==
    [][call'.op = "clear temporaries" =>
        /\ thrown' = NoError
        /\ emitted' = <<>>
        /\ UUIDMap' = UUIDMap \ KnownIds(batch')
        /\ \A u \in KnownIds(batch'), f \in Floors :
              /\ ~Member(movementBlockers'[f], u)
              /\ ~Member(visionBlockers'[f], u)
        /\ Len(layerCalls') = Cardinality(KnownIds(batch'))
        /\ Len(logged') = Len(batch') - Cardinality(KnownIds(batch'))
        /\ \A i \in 1..Len(batch') :
              ~KnownEntry(batch'[i])
                  => \A f \in Floors :
                        Member(movementBlockers'[f], batch'[i].uuid)
                          = (/\ Member(movementBlockers[f], batch'[i].uuid)
                             /\ batch'[i].uuid \notin KnownIds(batch'))]_vars

\* C22 is reached: a batch with s2 on an unknown layer first, then the
\* blocking shape s1, has removed s1 and left the blocking shape s2 in
\* place, with one line logged.
C22_Witness ==
    /\ call.op = "clear temporaries"
    /\ batch = <<[uuid |-> "s2", layer |-> UnknownLayer],
                 [uuid |-> "s1", layer |-> "tokens"]>>
    /\ UUIDMap = {"s2"}
    /\ Len(logged) = 1 /\ layerCalls = <<"removeShape">>
    /\ Count(movementBlockers["f1"], "s2") = 1
    /\ Count(movementBlockers["f1"], "s1") = 0

\* C23 as stated: no shape id occurs in the owned tokens more than once.
C23_OwnedTokensHaveNoDuplicates ==
    \A s \in Shapes : Count(ownedtokens, s) <= 1

\* C24 as stated: a shape whose id is among the owned tokens is one the
\* session's user has vision access to.
C24_OwnedTokensAreVisible ==
    \A s \in Shapes : Member(ownedtokens, s) => ownedBy(s, VisionOnly)

\* C25 as stated: a token the session's user has vision access to is among
\* the owned tokens.
C25_VisibleTokensAreOwned ==
    \A s \in Shapes :
        (isToken[s] /\ ownedBy(s, VisionOnly)) => Member(ownedtokens, s)

\* C26 as stated: the list getGroupMembers returns for a shape of the id map
\* contains the shape it was called on, and no shape more than once.
C26_GroupMembersHoldSelfOnce ==
    (call.op = "getGroupMembers" /\ call.shape \in UUIDMap) =>
        /\ Member(members, call.shape)
        /\ \A u \in GroupIds : Count(members, u) <= 1

\* The group data that decide the member list of shape s are well formed:
\* the groupInfo list of the shape its groupId names (its own when it has
\* none) lists no id twice and not the leader, and lists s when s is a
\* member of a leader the id map holds.
WellFormedGroup(s) ==
    LET g == IF OptionsHas(s, "groupId") THEN OptionsGet(s, "groupId") ELSE s
        led == g \in Shapes /\ OptionsHas(g, "groupInfo")
        info == IF led THEN OptionsGet(g, "groupInfo") ELSE <<>>
    IN  /\ \A u \in GroupIds : Count(info, u) <= 1
        /\ ~Member(info, g)
        /\ (led /\ g # s /\ g \in UUIDMap) => Member(info, s)

\* C26 amended: for a shape of the id map whose group data are well formed,
\* the list getGroupMembers returns contains the shape it was called on,
\* and no shape more than once.
C26_WellFormedGroupsHoldSelfOnce ==
    (call.op = "getGroupMembers" /\ call.shape \in UUIDMap
     /\ WellFormedGroup(call.shape)) =>
        /\ Member(members, call.shape)
        /\ \A u \in GroupIds : Count(members, u) <= 1

\* C26 is reached: the member s2 names the leader s1, whose groupInfo lists
\* an id that no shape has and then s2, and its member list is s1 and s2.
C26_Witness ==
    /\ call.op = "getGroupMembers" /\ call.shape = "s2"
    /\ UUIDMap = Shapes
    /\ OptionsHas("s2", "groupId") /\ OptionsGet("s2", "groupId") = "s1"
    /\ OptionsHas("s1", "groupInfo")
    /\ OptionsGet("s1", "groupInfo") = <<UnknownShape, "s2">>
    /\ WellFormedGroup("s2")
    /\ members = <<"s1", "s2">>

====
